---- MODULE Spec2Model ----
(***************************************************************************)
(* A model of the TOON codec of toon_format: the public entry points       *)
(* encode (encoder.py -> _encoders.py, _encode_primitives.py, _writer.py)  *)
(* and decode (decoder.py -> _scanner.py, _parsing_utils.py,               *)
(* _string_utils.py, _literal_utils.py), with normalize_value of          *)
(* _normalize.py and the row check of _decode_validation.py.               *)
(*                                                                         *)
(* Text is a sequence of one-character strings; a Python index i is the    *)
(* TLA+ index i + 1, and "not found" (-1 in Python) is 0.                  *)
(* A value of the closed value model is a record [t, v]:                   *)
(*   null, bool (v: BOOLEAN), int (v: Int), float (v: the literal's text), *)
(*   str (v: text), arr (v: sequence of values),                           *)
(*   obj (v: sequence of [k |-> text, v |-> value], insertion order).      *)
(* A raised exception is a record [t |-> "raise", v |-> <exception name>]. *)
(***************************************************************************)
EXTENDS Integers, Sequences, FiniteSets, TLC

VARIABLES pc, doc, input, encode_options, decode_options, toon, scan_result, decoded,
          cursor, returned

\* A local variable: the value is computed once and named in the body.
\* (TLC expands a LET definition at each of its uses; a parameter it does not.)
Bind(value, Body(_)) == Body(value)

vars == <<pc, doc, input, encode_options, decode_options, toon, scan_result, decoded,
          cursor, returned>>

----------------------------------------------------------------------------
(* constants.py / _constants.py *)

COMMA == ","
TAB == "\t"
PIPE == "|"
DEFAULT_DELIMITER == COMMA
COLON == ":"
SPACE == " "
OPEN_BRACKET == "["
CLOSE_BRACKET == "]"
OPEN_BRACE == "{"
CLOSE_BRACE == "}"
LIST_ITEM_MARKER == <<"-">>
LIST_ITEM_PREFIX == <<"-", " ">>
NULL_LITERAL == <<"n", "u", "l", "l">>
TRUE_LITERAL == <<"t", "r", "u", "e">>
FALSE_LITERAL == <<"f", "a", "l", "s", "e">>
BACKSLASH == "\\"
DOUBLE_QUOTE == "\""
NEWLINE == "\n"
CARRIAGE_RETURN == "\r"
HASH == "#"

----------------------------------------------------------------------------
(* Values and exceptions *)

VNull == [t |-> "null", v |-> <<>>]
VBool(b) == [t |-> "bool", v |-> b]
VInt(n) == [t |-> "int", v |-> n]
VFloat(tok) == [t |-> "float", v |-> tok]
VStr(s) == [t |-> "str", v |-> s]
VArr(items) == [t |-> "arr", v |-> items]
VObj(pairs) == [t |-> "obj", v |-> pairs]
\* a set or frozenset: its elements in the order in which iterating yields them
VSet(elems) == [t |-> "set", v |-> elems]
Raise(name) == [t |-> "raise", v |-> name]

IsRaise(x) == x.t = "raise"

\* _normalize.py: is_json_primitive / is_json_array / is_json_object
is_json_primitive(x) == x.t \in {"null", "bool", "int", "float", "str"}
is_json_array(x) == x.t = "arr"
is_json_object(x) == x.t = "obj"

\* all(pred(item) for item in value), over a sequence of values
is_array_of_primitives(items) == \A i \in 1..Len(items) : is_json_primitive(items[i])
is_array_of_arrays(items) == \A i \in 1..Len(items) : is_json_array(items[i])
is_array_of_objects(items) == \A i \in 1..Len(items) : is_json_object(items[i])

----------------------------------------------------------------------------
(* Python str helpers *)

\* the characters str.strip() removes, among those of the model's alphabet
Whitespace == {" ", "\t", "\n", "\r"}
DigitChars == {"0", "1", "2", "3", "4", "5", "6", "7", "8", "9"}
LetterChars == {"a", "b", "c", "d", "e", "f", "g", "h", "i", "j", "k", "l", "m",
                "n", "o", "p", "q", "r", "s", "t", "u", "v", "w", "x", "y", "z",
                "A", "B", "C", "D", "E", "F", "G", "H", "I", "J", "K", "L", "M",
                "N", "O", "P", "Q", "R", "S", "T", "U", "V", "W", "X", "Y", "Z"}
\* regex \w
WordChars == LetterChars \cup DigitChars \cup {"_"}

Contains(s, c) == \E i \in 1..Len(s) : s[i] = c
StartsWith(s, p) == Len(s) >= Len(p) /\ SubSeq(s, 1, Len(p)) = p
EndsWith(s, p) == Len(s) >= Len(p) /\ SubSeq(s, Len(s) - Len(p) + 1, Len(s)) = p
\* s[n:] for a Python index n >= 0
From(s, n) == SubSeq(s, n + 1, Len(s))
\* s[:n] for a Python index n >= 0
Upto(s, n) == SubSeq(s, 1, n)

RECURSIVE FirstNonWs(_, _)
FirstNonWs(s, i) ==
    IF i > Len(s) THEN i
    ELSE IF s[i] \in Whitespace THEN FirstNonWs(s, i + 1) ELSE i

RECURSIVE LastNonWs(_, _)
LastNonWs(s, i) ==
    IF i < 1 THEN i
    ELSE IF s[i] \in Whitespace THEN LastNonWs(s, i - 1) ELSE i

\* str.strip()
Strip(s) == SubSeq(s, FirstNonWs(s, 1), LastNonWs(s, Len(s)))

RECURSIVE Join(_, _)
\* sep.join(parts)
Join(parts, sep) ==
    IF Len(parts) = 0 THEN <<>>
    ELSE IF Len(parts) = 1 THEN parts[1]
    ELSE parts[1] \o sep \o Join(Tail(parts), sep)

\* the end of the run of digits that starts at index i (i itself if none)
RECURSIVE DigitsEnd(_, _)
DigitsEnd(s, i) ==
    IF i <= Len(s) /\ s[i] \in DigitChars THEN DigitsEnd(s, i + 1) ELSE i

DigitVal(c) ==
    CASE c = "0" -> 0 [] c = "1" -> 1 [] c = "2" -> 2 [] c = "3" -> 3
      [] c = "4" -> 4 [] c = "5" -> 5 [] c = "6" -> 6 [] c = "7" -> 7
      [] c = "8" -> 8 [] c = "9" -> 9

DigitChar(n) ==
    CASE n = 0 -> "0" [] n = 1 -> "1" [] n = 2 -> "2" [] n = 3 -> "3"
      [] n = 4 -> "4" [] n = 5 -> "5" [] n = 6 -> "6" [] n = 7 -> "7"
      [] n = 8 -> "8" [] n = 9 -> "9"

RECURSIVE NatToStr(_)
NatToStr(n) ==
    IF n < 10 THEN <<DigitChar(n)>>
    ELSE NatToStr(n \div 10) \o <<DigitChar(n % 10)>>

\* str(n) for an int
IntToStr(n) == IF n < 0 THEN <<"-">> \o NatToStr(0 - n) ELSE NatToStr(n)

\* the end of a digitpart (digit (["_"] digit)*) that starts at index i
\* (i itself if there is none): the grammar of int() and float() literals
RECURSIVE DigitPartEnd(_, _)
DigitPartEnd(s, i) ==
    IF i <= Len(s) /\ s[i] \in DigitChars
    THEN IF i + 2 <= Len(s) /\ s[i + 1] = "_" /\ s[i + 2] \in DigitChars
         THEN DigitPartEnd(s, i + 2)
         ELSE DigitPartEnd(s, i + 1)
    ELSE i

RECURSIVE DigitPartVal(_, _, _)
DigitPartVal(s, i, acc) ==
    IF i > Len(s) THEN acc
    ELSE IF s[i] = "_" THEN DigitPartVal(s, i + 1, acc)
    ELSE DigitPartVal(s, i + 1, acc * 10 + DigitVal(s[i]))

\* int(s): [ok |-> FALSE] stands for ValueError
PyInt(s) ==
    Bind(Strip(s), LAMBDA u :
    Bind(Len(u) > 0 /\ u[1] \in {"+", "-"}, LAMBDA signed :
    Bind(IF signed THEN 2 ELSE 1, LAMBDA start :
    Bind(DigitPartEnd(u, start), LAMBDA stop :
       IF stop > start /\ stop = Len(u) + 1
       THEN Bind(DigitPartVal(u, start, 0), LAMBDA n :
               [ok |-> TRUE, val |-> IF signed /\ u[1] = "-" THEN 0 - n ELSE n])
       ELSE [ok |-> FALSE, val |-> 0]))))

\* float(s) succeeds with a finite value: sign? (digitpart [. digitpart?] |
\* . digitpart) exponent?   (inf, infinity and nan parse, but are not finite)
PyFloatFinite(s) ==
    Bind(Strip(s), LAMBDA u :
    Bind(IF Len(u) > 0 /\ u[1] \in {"+", "-"} THEN 2 ELSE 1, LAMBDA start :
    Bind(DigitPartEnd(u, start), LAMBDA intEnd :
    Bind(intEnd > start, LAMBDA hasInt :
    Bind(intEnd <= Len(u) /\ u[intEnd] = ".", LAMBDA hasDot :
    Bind(IF hasDot THEN intEnd + 1 ELSE intEnd, LAMBDA fracStart :
    Bind(IF hasDot THEN DigitPartEnd(u, fracStart) ELSE intEnd, LAMBDA fracEnd :
    Bind(fracEnd > fracStart, LAMBDA hasFrac :
    Bind(fracEnd <= Len(u) /\ u[fracEnd] \in {"e", "E"}, LAMBDA hasExp :
    Bind(hasExp /\ fracEnd + 1 <= Len(u) /\ u[fracEnd + 1] \in {"+", "-"}, LAMBDA expSigned :
    Bind(IF expSigned THEN fracEnd + 2 ELSE fracEnd + 1, LAMBDA expStart :
    Bind(IF hasExp THEN DigitPartEnd(u, expStart) ELSE fracEnd, LAMBDA expEnd :
       /\ hasInt \/ hasFrac
       /\ hasExp => expEnd > expStart
       /\ expEnd = Len(u) + 1))))))))))))

----------------------------------------------------------------------------
(* _literal_utils.py *)

is_boolean_or_null_literal(token) ==
    token = TRUE_LITERAL \/ token = FALSE_LITERAL \/ token = NULL_LITERAL

is_numeric_literal(token) ==
    IF Len(token) = 0 THEN FALSE
    ELSE Bind(IF token[1] = "-" THEN 1 ELSE 0, LAMBDA start_idx :
            IF start_idx >= Len(token) THEN FALSE
            ELSE IF /\ Len(token) > start_idx + 1
                    /\ token[start_idx + 1] = "0"
                    /\ token[start_idx + 2] # "."
                 THEN FALSE
                 ELSE PyFloatFinite(token))

----------------------------------------------------------------------------
(* _validation.py *)

\* re.match of a pattern that ends in $: at the end of the string, or just
\* before a newline that ends it
DollarMatch(Full(_), s) ==
    Full(s) \/ (Len(s) > 0 /\ s[Len(s)] = "\n" /\ Full(Upto(s, Len(s) - 1)))

\* NUMERIC_REGEX  ^-?\d+(?:\.\d+)?(?:e[+-]?\d+)?$  with re.IGNORECASE
NumericFull(s) ==
    Bind(IF Len(s) > 0 /\ s[1] = "-" THEN 2 ELSE 1, LAMBDA start :
    Bind(DigitsEnd(s, start), LAMBDA intEnd :
    Bind(/\ intEnd < Len(s)
         /\ s[intEnd] = "."
         /\ s[intEnd + 1] \in DigitChars, LAMBDA hasFrac :
    Bind(IF hasFrac THEN DigitsEnd(s, intEnd + 1) ELSE intEnd, LAMBDA fracEnd :
    Bind(fracEnd <= Len(s) /\ s[fracEnd] \in {"e", "E"}, LAMBDA hasExp :
    Bind(hasExp /\ fracEnd + 1 <= Len(s) /\ s[fracEnd + 1] \in {"+", "-"}, LAMBDA expSigned :
    Bind(IF expSigned THEN fracEnd + 2 ELSE fracEnd + 1, LAMBDA expStart :
    Bind(IF hasExp THEN DigitsEnd(s, expStart) ELSE fracEnd, LAMBDA expEnd :
       /\ intEnd > start
       /\ hasExp => expEnd > expStart
       /\ expEnd = Len(s) + 1))))))))

\* OCTAL_REGEX  ^0\d+$
OctalFull(s) ==
    Len(s) >= 2 /\ s[1] = "0" /\ DigitsEnd(s, 2) = Len(s) + 1

\* VALID_KEY_REGEX  ^[A-Z_][\w.]*$  with re.IGNORECASE
ValidKeyFull(s) ==
    /\ Len(s) >= 1
    /\ s[1] \in LetterChars \cup {"_"}
    /\ \A i \in 2..Len(s) : s[i] \in WordChars \cup {"."}

is_valid_unquoted_key(key) ==
    IF Len(key) = 0 THEN FALSE ELSE DollarMatch(ValidKeyFull, key)

is_numeric_like(s) == DollarMatch(NumericFull, s) \/ DollarMatch(OctalFull, s)

is_safe_unquoted(s, delimiter) ==
    IF Len(s) = 0 THEN FALSE
    ELSE IF s # Strip(s) THEN FALSE
    ELSE IF is_boolean_or_null_literal(s) \/ is_numeric_like(s) THEN FALSE
    ELSE IF Contains(s, ":") THEN FALSE
    ELSE IF Contains(s, "\"") \/ Contains(s, "\\") THEN FALSE
    ELSE IF \E i \in 1..Len(s) : s[i] \in {"[", "]", "{", "}"} THEN FALSE
    ELSE IF \E i \in 1..Len(s) : s[i] \in {"\n", "\r", "\t"} THEN FALSE
    ELSE IF Contains(s, delimiter) THEN FALSE
    ELSE IF StartsWith(s, LIST_ITEM_MARKER) THEN FALSE
    ELSE TRUE

----------------------------------------------------------------------------
(* _string_utils.py *)

\* str.replace(old, new) for a one-character old
RECURSIVE Replace(_, _, _)
Replace(s, old, new) ==
    IF Len(s) = 0 THEN <<>>
    ELSE (IF s[1] = old THEN new ELSE <<s[1]>>) \o Replace(Tail(s), old, new)

\* escape_string with the double quote replaced before the backslash
escape_string_quote_first(s) ==
    Replace(Replace(Replace(Replace(Replace(s,
        DOUBLE_QUOTE, <<BACKSLASH, DOUBLE_QUOTE>>),
        BACKSLASH, <<BACKSLASH, BACKSLASH>>),
        NEWLINE, <<BACKSLASH, "n">>),
        CARRIAGE_RETURN, <<BACKSLASH, "r">>),
        TAB, <<BACKSLASH, "t">>)

escape_string(s) ==
    Replace(Replace(Replace(Replace(Replace(s,
        BACKSLASH, <<BACKSLASH, BACKSLASH>>),
        DOUBLE_QUOTE, <<BACKSLASH, DOUBLE_QUOTE>>),
        NEWLINE, <<BACKSLASH, "n">>),
        CARRIAGE_RETURN, <<BACKSLASH, "r">>),
        TAB, <<BACKSLASH, "t">>)

\* [ok |-> FALSE] stands for ValueError
RECURSIVE unescape_from(_, _, _)
unescape_from(s, i, acc) ==
    IF i > Len(s) THEN [ok |-> TRUE, val |-> acc]
    ELSE IF s[i] = BACKSLASH
         THEN IF i + 1 > Len(s) THEN [ok |-> FALSE, val |-> <<>>]
              ELSE Bind(s[i + 1], LAMBDA n :
                      CASE n = "n" -> unescape_from(s, i + 2, Append(acc, NEWLINE))
                        [] n = "t" -> unescape_from(s, i + 2, Append(acc, TAB))
                        [] n = "r" -> unescape_from(s, i + 2, Append(acc, CARRIAGE_RETURN))
                        [] n = BACKSLASH -> unescape_from(s, i + 2, Append(acc, BACKSLASH))
                        [] n = DOUBLE_QUOTE -> unescape_from(s, i + 2, Append(acc, DOUBLE_QUOTE))
                        [] OTHER -> [ok |-> FALSE, val |-> <<>>])
         ELSE unescape_from(s, i + 1, Append(acc, s[i]))

unescape_string(s) == unescape_from(s, 1, <<>>)

----------------------------------------------------------------------------
(* _encode_primitives.py *)

encode_string_literal(s, delimiter) ==
    IF is_safe_unquoted(s, delimiter) THEN s
    ELSE <<DOUBLE_QUOTE>> \o escape_string(s) \o <<DOUBLE_QUOTE>>

encode_primitive(x, delimiter) ==
    CASE x.t = "null" -> NULL_LITERAL
      [] x.t = "bool" -> (IF x.v THEN TRUE_LITERAL ELSE FALSE_LITERAL)
      [] x.t = "int" -> IntToStr(x.v)
      [] x.t = "str" -> encode_string_literal(x.v, delimiter)

encode_key(key) ==
    IF is_valid_unquoted_key(key) THEN key
    ELSE <<DOUBLE_QUOTE>> \o escape_string(key) \o <<DOUBLE_QUOTE>>

encode_and_join_primitives(values, delimiter) ==
    Join([i \in 1..Len(values) |-> encode_primitive(values[i], delimiter)], <<delimiter>>)

\* length_marker is the text of the marker; the empty text is False.
\* key is VNull (None) or VStr; fields is VNull (None) or [t |-> "fields", v].
format_header(length, key, fields, delimiter, length_marker) ==
    Bind(IF key # VNull /\ Len(key.v) > 0 THEN encode_key(key.v) ELSE <<>>, LAMBDA key_part :
    Bind(length_marker, LAMBDA marker_str :
    Bind(IF delimiter # DEFAULT_DELIMITER
         THEN <<"[">> \o marker_str \o IntToStr(length) \o <<delimiter, "]">>
         ELSE <<"[">> \o marker_str \o IntToStr(length) \o <<"]">>, LAMBDA bracket :
    Bind(IF fields # VNull /\ Len(fields.v) > 0
         THEN <<"{">>
              \o Join([i \in 1..Len(fields.v) |-> encode_key(fields.v[i])],
                      <<delimiter>>)
              \o <<"}">>
         ELSE <<>>, LAMBDA fields_part :
       key_part \o bracket \o fields_part \o <<":">>))))

\* encode_inline_array_line without the test for the empty array
encode_inline_array_line_unguarded(values, delimiter, prefix, length_marker) ==
    Bind(format_header(Len(values), prefix, VNull, delimiter, length_marker), LAMBDA header :
    Bind(encode_and_join_primitives(values, delimiter), LAMBDA joined_value :
       header \o <<" ">> \o joined_value))

encode_inline_array_line(values, delimiter, prefix, length_marker) ==
    Bind(format_header(Len(values), prefix, VNull, delimiter, length_marker), LAMBDA header :
    Bind(encode_and_join_primitives(values, delimiter), LAMBDA joined_value :
       IF Len(values) = 0 THEN header ELSE header \o <<" ">> \o joined_value))

----------------------------------------------------------------------------
(* _writer.py *)

RECURSIVE Repeat(_, _)
\* s * n
Repeat(s, n) == IF n <= 0 THEN <<>> ELSE s \o Repeat(s, n - 1)

LineWriter(indent_size) ==
    [t |-> "writer", lines |-> <<>>, indentation_string |-> Repeat(<<" ">>, indent_size)]

push(writer, depth, content) ==
    [writer EXCEPT !.lines = Append(@, Repeat(writer.indentation_string, depth) \o content)]

push_list_item(writer, depth, content) == push(writer, depth, LIST_ITEM_PREFIX \o content)

\* LineWriter.__str__
writer_str(writer) == Join(writer.lines, <<NEWLINE>>)

----------------------------------------------------------------------------
(* types.py, encoder.py: the options objects *)

\* ResolvedEncodeOptions.__init__: the attributes it sets
ResolvedEncodeOptions(indent, delimiter, length_marker) ==
    [indent |-> indent, delimiter |-> delimiter, lengthMarker |-> length_marker]

\* reading an attribute the object does not have raises AttributeError
HasAttr(obj, name) == name \in DOMAIN obj

\* opts is the EncodeOptions dict with every key given
resolve_encode_options(opts) ==
    ResolvedEncodeOptions(opts.indent, opts.delimiter, opts.length_marker)

----------------------------------------------------------------------------
(* _normalize.py *)

RECURSIVE normalize_value(_)
normalize_value(x) ==
    CASE x.t = "arr" -> VArr([i \in 1..Len(x.v) |-> normalize_value(x.v[i])])
      [] x.t = "set" -> VArr([i \in 1..Len(x.v) |-> normalize_value(x.v[i])])
      [] x.t = "obj" -> VObj([i \in 1..Len(x.v) |->
                                [k |-> x.v[i].k, v |-> normalize_value(x.v[i].v)]])
      [] OTHER -> x

----------------------------------------------------------------------------
(* _encoders.py: every function takes the writer and returns it, or a raise *)

\* row[key]
Lookup(pairs, key) == (CHOOSE i \in 1..Len(pairs) : pairs[i].k = key)
HasKey(pairs, key) == \E i \in 1..Len(pairs) : pairs[i].k = key
\* list(value.keys())
Keys(pairs) == [i \in 1..Len(pairs) |-> pairs[i].k]

is_tabular_array(rows, header) ==
    \A r \in 1..Len(rows) :
        /\ Len(rows[r].v) = Len(header)
        /\ \A h \in 1..Len(header) :
              /\ HasKey(rows[r].v, header[h])
              /\ is_json_primitive(rows[r].v[Lookup(rows[r].v, header[h])].v)

\* the field names as [t |-> "fields", v], or VNull for None
extract_tabular_header(rows) ==
    IF Len(rows) = 0 THEN VNull
    ELSE Bind(Keys(rows[1].v), LAMBDA first_keys :
            IF Len(first_keys) = 0 THEN VNull
            ELSE IF is_tabular_array(rows, first_keys)
            THEN [t |-> "fields", v |-> first_keys]
            ELSE VNull)

RECURSIVE write_tabular_rows(_, _, _, _, _)
write_tabular_rows(rows, header, writer, depth, options) ==
    IF Len(rows) = 0 THEN writer
    ELSE Bind(rows[1].v, LAMBDA row :
         Bind([h \in 1..Len(header) |-> row[Lookup(row, header[h])].v], LAMBDA values :
         Bind(SelectSeq(values, is_json_primitive), LAMBDA primitives :
         Bind(encode_and_join_primitives(primitives, options.delimiter), LAMBDA joined_value :
            write_tabular_rows(Tail(rows), header, push(writer, depth, joined_value),
                               depth, options)))))

RECURSIVE encode_object(_, _, _, _)
RECURSIVE encode_key_value_pair(_, _, _, _, _)
RECURSIVE encode_array(_, _, _, _, _)
RECURSIVE encode_list_item_value(_, _, _, _)
RECURSIVE encode_object_as_list_item(_, _, _, _)
RECURSIVE EncodeFields(_, _, _, _, _)
RECURSIVE EncodeListItems(_, _, _, _)
RECURSIVE EncodeObjectItems(_, _, _, _)

\* for key in keys[from:]: encode_key_value_pair(key, value[key], ...)
EncodeFields(pairs, from, writer, depth, options) ==
    IF from > Len(pairs) THEN writer
    ELSE Bind(encode_key_value_pair(pairs[from].k, pairs[from].v, writer, depth, options), LAMBDA w :
            IF IsRaise(w) THEN w ELSE EncodeFields(pairs, from + 1, w, depth, options))

encode_object(value, writer, depth, options) ==
    EncodeFields(value.v, 1, writer, depth, options)

encode_key_value_pair(key, value, writer, depth, options) ==
    Bind(encode_key(key), LAMBDA encoded_key :
       IF is_json_primitive(value)
       THEN push(writer, depth,
                 encoded_key \o <<":", " ">> \o encode_primitive(value, options.delimiter))
       ELSE IF is_json_array(value)
       THEN encode_array(VStr(key), value.v, writer, depth, options)
       ELSE IF Len(value.v) = 0
       THEN push(writer, depth, encoded_key \o <<":">>)
       ELSE encode_object(value, push(writer, depth, encoded_key \o <<":">>),
                          depth + 1, options))

\* for item in items: encode_list_item_value(item, writer, depth, options)
EncodeListItems(items, writer, depth, options) ==
    IF Len(items) = 0 THEN writer
    ELSE Bind(encode_list_item_value(items[1], writer, depth, options), LAMBDA w :
            IF IsRaise(w) THEN w ELSE EncodeListItems(Tail(items), w, depth, options))

\* for obj_item in objects_list: encode_object_as_list_item(obj_item, ...)
EncodeObjectItems(items, writer, depth, options) ==
    IF Len(items) = 0 THEN writer
    ELSE Bind(encode_object_as_list_item(items[1], writer, depth, options), LAMBDA w :
            IF IsRaise(w) THEN w ELSE EncodeObjectItems(Tail(items), w, depth, options))

RECURSIVE PushInlineItems(_, _, _, _)
\* the loop of encode_array_of_arrays_as_list_items
PushInlineItems(arrays, writer, depth, options) ==
    IF Len(arrays) = 0 THEN writer
    ELSE PushInlineItems(
             Tail(arrays),
             IF is_array_of_primitives(arrays[1].v)
             THEN push_list_item(writer, depth + 1,
                      encode_inline_array_line(arrays[1].v, options.delimiter, VNull,
                                               options.length_marker))
             ELSE writer,
             depth, options)

encode_array_of_arrays_as_list_items(prefix, values, writer, depth, options) ==
    Bind(format_header(Len(values), prefix, VNull, options.delimiter,
                       options.length_marker), LAMBDA header :
       PushInlineItems(values, push(writer, depth, header), depth, options))

encode_array_of_objects_as_tabular(prefix, rows, header, writer, depth, options) ==
    Bind(format_header(Len(rows), prefix, header, options.delimiter,
                       options.length_marker), LAMBDA formatted_header :
       write_tabular_rows(rows, header.v, push(writer, depth, formatted_header),
                          depth + 1, options))

encode_mixed_array_as_list_items(prefix, items, writer, depth, options) ==
    Bind(format_header(Len(items), prefix, VNull, options.delimiter,
                       options.length_marker), LAMBDA header :
       EncodeListItems(items, push(writer, depth, header), depth + 1, options))

\* key is VNull (None) or VStr
encode_array(key, value, writer, depth, options) ==
    IF ~HasAttr(options, "length_marker") THEN Raise("AttributeError")
    ELSE IF Len(value) = 0
    THEN push(writer, depth,
              format_header(0, key, VNull, options.delimiter, options.length_marker))
    ELSE IF is_array_of_primitives(value)
    THEN push(writer, depth,
              encode_inline_array_line(value, options.delimiter, key, options.length_marker))
    ELSE IF is_array_of_arrays(value)
            /\ \A i \in 1..Len(value) : is_array_of_primitives(value[i].v)
    THEN encode_array_of_arrays_as_list_items(key, value, writer, depth, options)
    ELSE IF is_array_of_objects(value)
    THEN Bind(extract_tabular_header(value), LAMBDA header_fields :
            IF header_fields # VNull
            THEN encode_array_of_objects_as_tabular(key, value, header_fields, writer,
                                                    depth, options)
            ELSE encode_mixed_array_as_list_items(key, value, writer, depth, options))
    ELSE encode_mixed_array_as_list_items(key, value, writer, depth, options)

\* the first field of encode_object_as_list_item, on the line of the "- "
EncodeFirstField(first_key, first_value, writer, depth, options) ==
    Bind(encode_key(first_key), LAMBDA encoded_key :
    Bind(first_value.v, LAMBDA array_val :
        \* f"{encoded_key}[{len(array_val)}]:"
    Bind(encoded_key \o <<"[">> \o IntToStr(Len(array_val)) \o <<"]", ":">>, LAMBDA plain_header :
       IF is_json_primitive(first_value)
       THEN push_list_item(writer, depth,
                encoded_key \o <<":", " ">> \o encode_primitive(first_value, options.delimiter))
       ELSE IF is_json_array(first_value)
       THEN IF is_array_of_primitives(array_val)
            THEN IF ~HasAttr(options, "length_marker") THEN Raise("AttributeError")
                 ELSE push_list_item(writer, depth,
                          encode_inline_array_line(array_val, options.delimiter,
                                                   VStr(first_key), options.length_marker))
            ELSE IF is_array_of_objects(array_val)
            THEN Bind(extract_tabular_header(array_val), LAMBDA header :
                    IF header # VNull
                    THEN IF ~HasAttr(options, "length_marker") THEN Raise("AttributeError")
                         ELSE write_tabular_rows(
                                  array_val, header.v,
                                  push_list_item(writer, depth,
                                      format_header(Len(array_val), VStr(first_key), header,
                                                    options.delimiter, options.length_marker)),
                                  depth + 1, options)
                    ELSE EncodeObjectItems(array_val,
                                           push_list_item(writer, depth, plain_header),
                                           depth + 1, options))
            ELSE EncodeListItems(array_val, push_list_item(writer, depth, plain_header),
                                 depth + 1, options)
       ELSE IF Len(first_value.v) = 0
       THEN push_list_item(writer, depth, encoded_key \o <<":">>)
       ELSE encode_object(first_value,
                          push_list_item(writer, depth, encoded_key \o <<":">>),
                          depth + 2, options))))

encode_object_as_list_item(obj, writer, depth, options) ==
    IF Len(obj.v) = 0 THEN push(writer, depth, LIST_ITEM_MARKER)
    ELSE Bind(EncodeFirstField(obj.v[1].k, obj.v[1].v, writer, depth, options), LAMBDA w :
            IF IsRaise(w) THEN w ELSE EncodeFields(obj.v, 2, w, depth + 1, options))

encode_list_item_value(value, writer, depth, options) ==
    IF is_json_primitive(value)
    THEN push_list_item(writer, depth, encode_primitive(value, options.delimiter))
    ELSE IF is_json_array(value)
    THEN IF ~HasAttr(options, "length_marker") THEN Raise("AttributeError")
         ELSE IF is_array_of_primitives(value.v)
         THEN push_list_item(writer, depth,
                  encode_inline_array_line(value.v, options.delimiter, VNull,
                                           options.length_marker))
         ELSE EncodeListItems(
                  value.v,
                  push_list_item(writer, depth,
                      format_header(Len(value.v), VNull, VNull, options.delimiter,
                                    options.length_marker)),
                  depth + 1, options)
    ELSE encode_object_as_list_item(value, writer, depth, options)

\* the text, as VStr, or a raise
encode_value(value, options) ==
    IF is_json_primitive(value) THEN VStr(encode_primitive(value, options.delimiter))
    ELSE Bind(LineWriter(options.indent), LAMBDA writer :
         Bind(IF is_json_array(value) THEN encode_array(VNull, value.v, writer, 0, options)
              ELSE encode_object(value, writer, 0, options), LAMBDA w :
            IF IsRaise(w) THEN w ELSE VStr(writer_str(w))))

(* encoder.py *)

encode(value, opts) ==
    encode_value(normalize_value(value), resolve_encode_options(opts))

----------------------------------------------------------------------------
(* _parsing_utils.py *)

\* iter_unquoted(line, start): the is_quoted flag it yields for each index
\* from i on (every index is yielded exactly once)
RECURSIVE QuotedFlags(_, _, _)
QuotedFlags(line, i, in_quotes) ==
    IF i > Len(line) THEN <<>>
    ELSE IF line[i] = DOUBLE_QUOTE
         THEN <<in_quotes>> \o QuotedFlags(line, i + 1, ~in_quotes)
    ELSE IF line[i] = BACKSLASH /\ i + 1 <= Len(line) /\ in_quotes
         THEN <<TRUE, TRUE>> \o QuotedFlags(line, i + 2, in_quotes)
    ELSE <<in_quotes>> \o QuotedFlags(line, i + 1, in_quotes)

\* iter_unquoted(line, start) as a function from the indices start..Len(line)
\* to the is_quoted flag
iter_unquoted(line, start) ==
    Bind(QuotedFlags(line, start, FALSE), LAMBDA flags :
       [i \in start..Len(line) |-> flags[i - start + 1]])

\* the least index >= start of an unquoted character of the set, 0 if none
find_first_unquoted(line, chars, start) ==
    Bind(iter_unquoted(line, start), LAMBDA q :
    Bind({i \in start..Len(line) : line[i] \in chars /\ ~q[i]}, LAMBDA hits :
       IF hits = {} THEN 0 ELSE CHOOSE i \in hits : \A j \in hits : i <= j))

find_unquoted_char(line, target_char, start) ==
    find_first_unquoted(line, {target_char}, start)

RECURSIVE SplitUnquoted(_, _, _, _, _, _)
SplitUnquoted(line, q, delimiter, i, current, tokens) ==
    IF i > Len(line)
    THEN IF Len(current) > 0 \/ Len(tokens) > 0 THEN Append(tokens, current) ELSE tokens
    ELSE IF line[i] = delimiter /\ ~q[i]
         THEN SplitUnquoted(line, q, delimiter, i + 1, <<>>, Append(tokens, current))
         ELSE SplitUnquoted(line, q, delimiter, i + 1, Append(current, line[i]), tokens)

parse_delimited_values(line, delimiter) ==
    SplitUnquoted(line, iter_unquoted(line, 1), delimiter, 1, <<>>, <<>>)

----------------------------------------------------------------------------
(* decoder.py: tokens, keys, headers *)

\* decoder.unescape_string turns the ValueError of _string_utils.unescape_string
\* into ToonDecodeError
decode_unescape(s) ==
    Bind(unescape_string(s), LAMBDA r :
       IF r.ok THEN VStr(r.val) ELSE Raise("ToonDecodeError"))

parse_primitive(tok) ==
    Bind(Strip(tok), LAMBDA token :
       IF StartsWith(token, <<DOUBLE_QUOTE>>)
       THEN IF ~EndsWith(token, <<DOUBLE_QUOTE>>) \/ Len(token) < 2
            THEN Raise("ToonDecodeError")
            ELSE decode_unescape(SubSeq(token, 2, Len(token) - 1))
       ELSE IF is_boolean_or_null_literal(token)
       THEN (IF token = TRUE_LITERAL THEN VBool(TRUE)
             ELSE IF token = FALSE_LITERAL THEN VBool(FALSE)
             ELSE VNull)
       ELSE IF Len(token) > 0 /\ is_numeric_literal(token)
       THEN IF ~Contains(token, ".") /\ ~Contains(token, "e") /\ ~Contains(token, "E")
            THEN VInt(PyInt(token).val)
            ELSE VFloat(token)
       ELSE VStr(token))

\* returns VStr(key) or raises
parse_key(key_str) ==
    Bind(Strip(key_str), LAMBDA k :
       IF StartsWith(k, <<DOUBLE_QUOTE>>)
       THEN IF ~EndsWith(k, <<DOUBLE_QUOTE>>) \/ Len(k) < 2
            THEN Raise("ToonDecodeError")
            ELSE decode_unescape(SubSeq(k, 2, Len(k) - 1))
       ELSE VStr(k))

\* [parse_key(f.strip()) for f in field_tokens]: the keys, or the first raise
RECURSIVE ParseKeys(_, _)
ParseKeys(tokens, acc) ==
    IF Len(tokens) = 0 THEN [t |-> "fields", v |-> acc]
    ELSE Bind(parse_key(Strip(tokens[1])), LAMBDA k :
            IF IsRaise(k) THEN k ELSE ParseKeys(Tail(tokens), Append(acc, k.v)))

\* None
NoHeader == [t |-> "none"]

\* the part of parse_header after the bracket segment
HeaderTail(line, key, length, delimiter, bracket_end) ==
    Bind(Strip(From(line, bracket_end)), LAMBDA after_bracket :
       IF StartsWith(after_bracket, <<OPEN_BRACE>>)
       THEN Bind(find_unquoted_char(after_bracket, CLOSE_BRACE, 1), LAMBDA brace_end :
               IF brace_end = 0 THEN Raise("ToonDecodeError")
               ELSE Bind(SubSeq(after_bracket, 2, brace_end - 1), LAMBDA fields_content :
                    Bind(ParseKeys(parse_delimited_values(fields_content, delimiter), <<>>), LAMBDA fields :
                    Bind(Strip(From(after_bracket, brace_end)), LAMBDA rest :
                       IF IsRaise(fields) THEN fields
                       ELSE IF ~StartsWith(rest, <<COLON>>) THEN NoHeader
                       ELSE [t |-> "hdr", key |-> key, length |-> length,
                             delimiter |-> delimiter, fields |-> fields]))))
       ELSE IF ~StartsWith(after_bracket, <<COLON>>) THEN NoHeader
       ELSE [t |-> "hdr", key |-> key, length |-> length,
             delimiter |-> delimiter, fields |-> VNull])

\* (key, length, delimiter, fields) as a record; key and fields are VNull for
\* None; NoHeader when the line is no header; or a raise
parse_header(ln) ==
    Bind(Strip(ln), LAMBDA line :
    Bind(find_unquoted_char(line, OPEN_BRACKET, 1), LAMBDA bracket_start :
       IF bracket_start = 0 THEN NoHeader
       ELSE
       Bind(Strip(Upto(line, bracket_start - 1)), LAMBDA key_part :
       Bind(IF bracket_start > 1 /\ Len(key_part) > 0 THEN parse_key(key_part) ELSE VNull, LAMBDA key :
          IF IsRaise(key) THEN key
          ELSE
          Bind(find_unquoted_char(line, CLOSE_BRACKET, bracket_start), LAMBDA bracket_end :
             IF bracket_end = 0 THEN NoHeader
             ELSE
             Bind(SubSeq(line, bracket_start + 1, bracket_end - 1), LAMBDA raw_content :
             Bind(IF StartsWith(raw_content, <<HASH>>)
                  THEN Tail(raw_content) ELSE raw_content, LAMBDA bracket_content :
             Bind(\/ EndsWith(bracket_content, <<TAB>>)
                  \/ EndsWith(bracket_content, <<PIPE>>)
                  \/ EndsWith(bracket_content, <<COMMA>>), LAMBDA has_delim :
             Bind(IF EndsWith(bracket_content, <<TAB>>) THEN TAB
                  ELSE IF EndsWith(bracket_content, <<PIPE>>) THEN PIPE
                  ELSE COMMA, LAMBDA delimiter :
             Bind(IF has_delim
                  THEN Upto(bracket_content, Len(bracket_content) - 1)
                  ELSE bracket_content, LAMBDA length_str :
             Bind(PyInt(length_str), LAMBDA length :
                IF ~length.ok THEN NoHeader
                ELSE HeaderTail(line, key, length.val, delimiter, bracket_end))))))))))))

\* [ok |-> FALSE] stands for ToonDecodeError("Missing colon after key")
split_key_value(line) ==
    Bind(find_unquoted_char(line, COLON, 1), LAMBDA colon_idx :
       IF colon_idx = 0 THEN [ok |-> FALSE, key |-> <<>>, value |-> <<>>]
       ELSE [ok |-> TRUE, key |-> Strip(Upto(line, colon_idx - 1)),
             value |-> Strip(From(line, colon_idx))])

----------------------------------------------------------------------------
(* _scanner.py *)

RECURSIVE SplitLines(_, _, _)
\* source.split("\n")
SplitLines(source, i, current) ==
    IF i > Len(source) THEN <<current>>
    ELSE IF source[i] = NEWLINE
         THEN <<current>> \o SplitLines(source, i + 1, <<>>)
         ELSE SplitLines(source, i + 1, Append(current, source[i]))

\* the number of leading characters of raw that belong to the set
RECURSIVE LeadingRun(_, _, _)
LeadingRun(raw, chars, n) ==
    IF n < Len(raw) /\ raw[n + 1] \in chars THEN LeadingRun(raw, chars, n + 1) ELSE n

\* the depth rounded up instead of down
compute_depth_rounding_up(indent_spaces, indent_size) ==
    (indent_spaces + indent_size - 1) \div indent_size

compute_depth_from_indent(indent_spaces, indent_size) == indent_spaces \div indent_size

\* ParsedLine.is_blank
is_blank(line) == Len(Strip(line.content)) = 0

\* ScanLine with the indentation checks applied to blank lines too
ScanLineCheckingBlank(raw, line_num, indent_size, strict) ==
    Bind(LeadingRun(raw, {SPACE}, 0), LAMBDA indent :
    Bind(From(raw, indent), LAMBDA content :
    Bind(LeadingRun(raw, {SPACE, TAB}, 0), LAMBDA ws_end :
       IF indent_size = 0 THEN Raise("ZeroDivisionError")
       ELSE IF strict /\ Contains(Upto(raw, ws_end), TAB)
       THEN Raise("SyntaxError")
       ELSE IF strict /\ indent > 0 /\ indent % indent_size # 0
       THEN Raise("SyntaxError")
       ELSE [t |-> "line", raw |-> raw, depth |-> compute_depth_from_indent(indent, indent_size),
             indent |-> indent, content |-> content, line_num |-> line_num])))

\* one iteration of the loop of to_parsed_lines: the ParsedLine, or a raise
ScanLine(raw, line_num, indent_size, strict) ==
    Bind(LeadingRun(raw, {SPACE}, 0), LAMBDA indent :
    Bind(From(raw, indent), LAMBDA content :
    Bind(Len(Strip(content)) = 0, LAMBDA blank :
    Bind(LeadingRun(raw, {SPACE, TAB}, 0), LAMBDA ws_end :
       IF indent_size = 0 THEN Raise("ZeroDivisionError")
       ELSE IF strict /\ ~blank /\ Contains(Upto(raw, ws_end), TAB)
       THEN Raise("SyntaxError")
       ELSE IF strict /\ ~blank /\ indent > 0 /\ indent % indent_size # 0
       THEN Raise("SyntaxError")
       ELSE [t |-> "line", raw |-> raw, depth |-> compute_depth_from_indent(indent, indent_size),
             indent |-> indent, content |-> content, line_num |-> line_num]))))

RECURSIVE ScanLines(_, _, _, _, _)
ScanLines(raws, n, indent_size, strict, parsed) ==
    IF n > Len(raws) THEN [t |-> "lines", v |-> parsed]
    ELSE Bind(ScanLine(raws[n], n, indent_size, strict), LAMBDA l :
            IF IsRaise(l) THEN l
            ELSE ScanLines(raws, n + 1, indent_size, strict, Append(parsed, l)))

BlankLineInfo(line) == [line_num |-> line.line_num, indent |-> line.indent, depth |-> line.depth]

\* [t |-> "scan", parsed, blank_lines], or a raise
to_parsed_lines(source, indent_size, strict) ==
    IF Len(Strip(source)) = 0 THEN [t |-> "scan", parsed |-> <<>>, blank_lines |-> <<>>]
    ELSE Bind(ScanLines(SplitLines(source, 1, <<>>), 1, indent_size, strict, <<>>), LAMBDA scanned :
            IF IsRaise(scanned) THEN scanned
            ELSE Bind(SelectSeq(scanned.v, is_blank), LAMBDA blanks :
                    [t |-> "scan", parsed |-> scanned.v,
                     blank_lines |-> [i \in 1..Len(blanks) |-> BlankLineInfo(blanks[i])]]))

----------------------------------------------------------------------------
(* decoder.py: the structural decoder.  A line index i here is the Python  *)
(* index i - 1; `lines` holds every physical line, the blank ones too.     *)

\* (value, next index)
Ret(val, i) == [t |-> "ret", val |-> val, i |-> i]
\* an exception raised while the local index was i
RaiseAt(name, i) == [t |-> "raise", v |-> name, i |-> i]

\* result[key] = val on an insertion-ordered dict
RECURSIVE DictSet(_, _, _)
DictSet(pairs, key, val) ==
    IF Len(pairs) = 0 THEN <<[k |-> key, v |-> val]>>
    ELSE IF pairs[1].k = key THEN <<[k |-> key, v |-> val]>> \o Tail(pairs)
    ELSE <<pairs[1]>> \o DictSet(Tail(pairs), key, val)

\* [parse_primitive(token) for token in tokens]: the values, or the first raise
RECURSIVE ParsePrimitives(_, _)
ParsePrimitives(tokens, acc) ==
    IF Len(tokens) = 0 THEN [t |-> "vals", v |-> acc]
    ELSE Bind(parse_primitive(tokens[1]), LAMBDA x :
            IF IsRaise(x) THEN x ELSE ParsePrimitives(Tail(tokens), Append(acc, x)))

decode_inline_array(content, delimiter, expected_length, strict) ==
    IF Len(content) = 0 /\ expected_length = 0 THEN VArr(<<>>)
    ELSE Bind(ParsePrimitives(parse_delimited_values(content, delimiter), <<>>), LAMBDA values :
            IF IsRaise(values) THEN values
            ELSE IF strict /\ Len(values.v) # expected_length THEN Raise("ToonDecodeError")
            ELSE VArr(values.v))

is_row_line(line, delimiter) ==
    Bind(find_first_unquoted(line, {delimiter, COLON}, 1), LAMBDA pos :
       IF pos = 0 THEN TRUE ELSE line[pos] = delimiter)

\* while i < len(lines) and lines[i].depth > depth: i += 1
RECURSIVE SkipDeeper(_, _, _)
SkipDeeper(lines, i, depth) ==
    IF i <= Len(lines) /\ lines[i].depth > depth THEN SkipDeeper(lines, i + 1, depth) ELSE i

\* {fields[j]: values[j] for j in range(min(len(fields), len(values)))}
RECURSIVE RowObject(_, _, _, _)
RowObject(fields, values, j, acc) ==
    IF j > Len(fields) \/ j > Len(values) THEN acc
    ELSE RowObject(fields, values, j + 1, DictSet(acc, fields[j], values[j]))

RECURSIVE decode_object(_, _, _, _)
RECURSIVE ObjectLoop(_, _, _, _, _)
RECURSIVE decode_array_from_header(_, _, _, _, _)
RECURSIVE TabularLoop(_, _, _, _, _, _, _)
RECURSIVE ListLoop(_, _, _, _)
RECURSIVE FieldLoop(_, _, _, _, _)
RECURSIVE ObjectItem(_, _, _, _, _)

\* what one iteration of a line loop does: it goes on at line i, it leaves
\* the loop (break), or it raises
Continue(i, acc) == [t |-> "continue", i |-> i, acc |-> acc]
Break == [t |-> "break"]

\* one iteration of the while loop of decode_object
ObjectStep(lines, i, expected_depth, strict, acc) ==
    Bind(lines[i], LAMBDA line :
       IF is_blank(line) THEN Continue(i + 1, acc)
       ELSE IF line.depth < expected_depth THEN Break
       ELSE IF line.depth > expected_depth THEN Continue(i + 1, acc)
       ELSE
       Bind(parse_header(line.content), LAMBDA header_info :
          IF IsRaise(header_info) THEN header_info
          ELSE IF header_info.t = "hdr" /\ header_info.key # VNull
          THEN Bind(decode_array_from_header(lines, i, line.depth, header_info, strict), LAMBDA arr :
                  IF IsRaise(arr) THEN Raise(arr.v)
                  ELSE Continue(arr.i, DictSet(acc, header_info.key.v, arr.val)))
          ELSE
          Bind(split_key_value(line.content), LAMBDA kv :
             IF ~kv.ok
             THEN IF strict THEN Raise("ToonDecodeError")
                  ELSE Continue(i + 1, acc)
             ELSE
             Bind(parse_key(kv.key), LAMBDA key :
                IF IsRaise(key) THEN key
                ELSE IF Len(kv.value) = 0
                THEN Bind(decode_object(lines, i + 1, line.depth, strict), LAMBDA nested :
                        IF IsRaise(nested) THEN nested
                        ELSE Continue(SkipDeeper(lines, i + 1, line.depth),
                                      DictSet(acc, key.v, nested)))
                ELSE Bind(parse_primitive(kv.value), LAMBDA prim :
                        IF IsRaise(prim) THEN prim
                        ELSE Continue(i + 1, DictSet(acc, key.v, prim)))))))

\* the while loop of decode_object
ObjectLoop(lines, i, expected_depth, strict, acc) ==
    IF i > Len(lines) THEN VObj(acc)
    ELSE Bind(ObjectStep(lines, i, expected_depth, strict, acc), LAMBDA step :
            IF IsRaise(step) THEN step
            ELSE IF step.t = "break" THEN VObj(acc)
            ELSE ObjectLoop(lines, step.i, expected_depth, strict, step.acc))

\* start_idx is a Python index + 1, so "start_idx == 0" reads start_idx = 1
decode_object(lines, start_idx, parent_depth, strict) ==
    ObjectLoop(lines, start_idx,
               IF start_idx = 1 THEN parent_depth ELSE parent_depth + 1, strict, <<>>)

\* TabularStep without the i += 1 before the continue of a blank line
TabularStepStayingOnBlank(lines, i, row_depth, header_info, strict, acc) ==
    Bind(header_info.fields.v, LAMBDA fields :
    Bind(lines[i], LAMBDA line :
       IF is_blank(line)
       THEN IF strict
            THEN IF line.depth >= row_depth THEN Raise("ToonDecodeError") ELSE Break
            ELSE Continue(i, acc)
       ELSE IF line.depth < row_depth \/ line.depth > row_depth THEN Break
       ELSE IF is_row_line(line.content, header_info.delimiter)
       THEN Bind(ParsePrimitives(
                     parse_delimited_values(line.content, header_info.delimiter), <<>>), LAMBDA values :
               IF IsRaise(values) THEN values
               ELSE IF strict /\ Len(values.v) # Len(fields) THEN Raise("ToonDecodeError")
               ELSE Continue(i + 1, Append(acc, VObj(RowObject(fields, values.v, 1, <<>>)))))
       ELSE Break))

\* one iteration of the while loop of decode_tabular_array
TabularStep(lines, i, row_depth, header_info, strict, acc) ==
    Bind(header_info.fields.v, LAMBDA fields :
    Bind(lines[i], LAMBDA line :
       IF is_blank(line)
       THEN IF strict
            THEN IF line.depth >= row_depth THEN Raise("ToonDecodeError") ELSE Break
            ELSE Continue(i + 1, acc)
       ELSE IF line.depth < row_depth \/ line.depth > row_depth THEN Break
       ELSE IF is_row_line(line.content, header_info.delimiter)
       THEN Bind(ParsePrimitives(
                     parse_delimited_values(line.content, header_info.delimiter), <<>>), LAMBDA values :
               IF IsRaise(values) THEN values
               ELSE IF strict /\ Len(values.v) # Len(fields) THEN Raise("ToonDecodeError")
               ELSE Continue(i + 1, Append(acc, VObj(RowObject(fields, values.v, 1, <<>>)))))
       ELSE Break))

\* the while loop of decode_tabular_array and the count check after it
TabularLoop(lines, i, row_depth, header_info, strict, acc, stop) ==
    IF stop \/ i > Len(lines)
    THEN IF strict /\ Len(acc) # header_info.length THEN Raise("ToonDecodeError")
         ELSE Ret(VArr(acc), i)
    ELSE Bind(TabularStep(lines, i, row_depth, header_info, strict, acc), LAMBDA step :
            IF IsRaise(step) THEN step
            ELSE IF step.t = "break"
            THEN TabularLoop(lines, i, row_depth, header_info, strict, acc, TRUE)
            ELSE TabularLoop(lines, step.i, row_depth, header_info, strict, step.acc, FALSE))

decode_tabular_array(lines, start_idx, header_depth, header_info, strict) ==
    TabularLoop(lines, start_idx, header_depth + 1, header_info, strict, <<>>, FALSE)

\* one iteration of the loop "remaining fields at depth +1" of
\* decode_list_array (lines 676-712 and 739-773); what the inner try catches
\* ends the loop
FieldStep(lines, i, field_depth, strict, obj) ==
    Bind(lines[i], LAMBDA field_line :
       IF is_blank(field_line) THEN Continue(i + 1, obj)
       ELSE
       Bind(parse_header(field_line.content), LAMBDA field_header :
          IF IsRaise(field_header) THEN RaiseAt(field_header.v, i)
          ELSE IF field_header.t = "hdr" /\ field_header.key # VNull
          THEN Bind(decode_array_from_header(lines, i, field_line.depth,
                                             field_header, strict), LAMBDA arr :
                  IF IsRaise(arr) THEN RaiseAt(arr.v, i)
                  ELSE Continue(arr.i, DictSet(obj, field_header.key.v, arr.val)))
          ELSE
          Bind(split_key_value(field_line.content), LAMBDA kv :
          Bind(IF kv.ok THEN parse_key(kv.key) ELSE Raise("ToonDecodeError"), LAMBDA field_key :
             IF IsRaise(field_key) THEN Break
             ELSE IF Len(kv.value) = 0
             THEN Bind(decode_object(lines, i + 1, field_line.depth, strict), LAMBDA nested :
                     IF IsRaise(nested) THEN Break
                     ELSE Continue(SkipDeeper(lines, i + 1, field_line.depth),
                                   DictSet(obj, field_key.v, nested)))
             ELSE Bind(parse_primitive(kv.value), LAMBDA prim :
                     IF IsRaise(prim) THEN Break
                     ELSE Continue(i + 1, DictSet(obj, field_key.v, prim)))))))

\* the loop "remaining fields at depth +1" of decode_list_array: Ret(pairs, i),
\* or RaiseAt for what parse_header and decode_array_from_header raise
FieldLoop(lines, i, field_depth, strict, obj) ==
    IF ~(i <= Len(lines) /\ lines[i].depth = field_depth) THEN Ret(obj, i)
    ELSE Bind(FieldStep(lines, i, field_depth, strict, obj), LAMBDA step :
            IF IsRaise(step) THEN step
            ELSE IF step.t = "break" THEN Ret(obj, i)
            ELSE FieldLoop(lines, step.i, field_depth, strict, step.acc))

\* the body of the try of decode_list_array (lines 719-775): Ret(pairs, i), or
\* RaiseAt(ToonDecodeError, i) with the value i had when it was raised
ObjectItem(lines, i, line, item_content, strict) ==
    Bind(split_key_value(item_content), LAMBDA kv :
       IF ~kv.ok THEN RaiseAt("ToonDecodeError", i)
       ELSE
       Bind(parse_key(kv.key), LAMBDA key :
          IF IsRaise(key) THEN RaiseAt(key.v, i)
          ELSE IF Len(kv.value) = 0
          THEN Bind(decode_object(lines, i + 1, line.depth + 1, strict), LAMBDA nested :
                  IF IsRaise(nested) THEN RaiseAt(nested.v, i)
                  ELSE FieldLoop(lines, SkipDeeper(lines, i + 1, line.depth + 1),
                                 line.depth + 1, strict, <<[k |-> key.v, v |-> nested]>>))
          ELSE Bind(parse_primitive(kv.value), LAMBDA prim :
                  IF IsRaise(prim) THEN RaiseAt(prim.v, i)
                  ELSE FieldLoop(lines, i + 1, line.depth + 1, strict,
                                 <<[k |-> key.v, v |-> prim]>>))))

\* str.find(":") + 1
RECURSIVE FindChar(_, _, _)
FindChar(s, c, i) ==
    IF i > Len(s) THEN 0 ELSE IF s[i] = c THEN i ELSE FindChar(s, c, i + 1)

\* one iteration of the while loop of decode_list_array
ListStep(lines, i, item_depth, strict, acc) ==
    Bind(lines[i], LAMBDA line :
       IF is_blank(line)
       THEN IF strict
            THEN IF line.depth >= item_depth THEN Raise("ToonDecodeError") ELSE Break
            ELSE Continue(i + 1, acc)
       ELSE IF line.depth < item_depth THEN Break
       ELSE IF ~StartsWith(line.content, LIST_ITEM_MARKER) THEN Break
       ELSE
       Bind(Strip(From(line.content, Len(LIST_ITEM_MARKER))), LAMBDA item_content :
       Bind(parse_header(item_content), LAMBDA item_header :
       Bind(FindChar(item_content, COLON, 1), LAMBDA colon_idx :
       Bind(Strip(From(item_content, colon_idx)), LAMBDA inline_part :
       \* lines 717-783: the item as an object, else as a primitive
       Bind(Bind(ObjectItem(lines, i, line, item_content, strict), LAMBDA item :
               IF ~IsRaise(item) THEN Continue(item.i, Append(acc, VObj(item.val)))
               ELSE IF Len(item_content) = 0
               THEN Continue(item.i + 1, Append(acc, VObj(<<>>)))
               ELSE Bind(parse_primitive(item_content), LAMBDA prim :
                       IF IsRaise(prim) THEN prim
                       ELSE Continue(item.i + 1, Append(acc, prim)))), LAMBDA AsObject :
          IF IsRaise(item_header) THEN item_header
          ELSE IF item_header.t = "hdr" /\ item_header.key = VNull
          THEN IF colon_idx # 0 /\ (Len(inline_part) > 0 \/ item_header.length = 0)
               THEN Bind(decode_inline_array(inline_part, item_header.delimiter,
                                             item_header.length, strict), LAMBDA item_val :
                       IF IsRaise(item_val) THEN item_val
                       ELSE Continue(i + 1, Append(acc, item_val)))
               ELSE AsObject
          ELSE IF item_header.t = "hdr"
          THEN Bind(decode_array_from_header(lines, i, line.depth, item_header, strict), LAMBDA arr :
                  IF IsRaise(arr) THEN Raise(arr.v)
                  ELSE Bind(FieldLoop(lines, arr.i, line.depth + 1, strict,
                                      <<[k |-> item_header.key.v, v |-> arr.val]>>), LAMBDA rest :
                          IF IsRaise(rest) THEN Raise(rest.v)
                          ELSE Continue(rest.i, Append(acc, VObj(rest.val)))))
          ELSE AsObject))))))

\* the while loop of decode_list_array and the count check after it; st is
\* [i, acc, stop, expected_length]
ListLoop(lines, item_depth, strict, st) ==
    IF st.stop \/ st.i > Len(lines)
    THEN IF strict /\ Len(st.acc) # st.expected_length THEN Raise("ToonDecodeError")
         ELSE Ret(VArr(st.acc), st.i)
    ELSE Bind(ListStep(lines, st.i, item_depth, strict, st.acc), LAMBDA step :
            IF IsRaise(step) THEN step
            ELSE IF step.t = "break"
            THEN ListLoop(lines, item_depth, strict, [st EXCEPT !.stop = TRUE])
            ELSE ListLoop(lines, item_depth, strict,
                          [st EXCEPT !.i = step.i, !.acc = step.acc]))

decode_list_array(lines, start_idx, header_depth, delimiter, expected_length, strict) ==
    ListLoop(lines, header_depth + 1, strict,
             [i |-> start_idx, acc |-> <<>>, stop |-> FALSE,
              expected_length |-> expected_length])

decode_array_from_header(lines, header_idx, header_depth, header_info, strict) ==
    Bind(lines[header_idx].content, LAMBDA header_line :
    Bind(split_key_value(header_line), LAMBDA kv :
    Bind(IF kv.ok THEN kv.value ELSE <<>>, LAMBDA inline_content :
    Bind(header_info.fields = VNull \/ Len(header_info.fields.v) = 0, LAMBDA no_fields :
       IF Len(inline_content) > 0 \/ (no_fields /\ header_info.length = 0)
       THEN Bind(decode_inline_array(inline_content, header_info.delimiter,
                                     header_info.length, strict), LAMBDA arr :
               IF IsRaise(arr) THEN arr ELSE Ret(arr, header_idx + 1))
       ELSE IF header_info.fields # VNull
       THEN decode_tabular_array(lines, header_idx + 1, header_depth, header_info, strict)
       ELSE decode_list_array(lines, header_idx + 1, header_depth, header_info.delimiter,
                              header_info.length, strict)))))

decode_array(lines, start_idx, parent_depth, header_info, strict) ==
    Bind(decode_array_from_header(lines, start_idx, parent_depth, header_info, strict), LAMBDA arr :
       IF IsRaise(arr) THEN Raise(arr.v) ELSE arr.val)

\* DecodeOptions (types.py): [indent, strict]
decode(input_str, opts) ==
    Bind(to_parsed_lines(input_str, opts.indent, opts.strict), LAMBDA scan :
       IF IsRaise(scan)
       THEN IF scan.v = "SyntaxError" THEN Raise("ToonDecodeError") ELSE scan
       ELSE
       Bind([i \in 1..Len(scan.parsed) |->
               [scan.parsed[i] EXCEPT !.content = Strip(scan.parsed[i].content)]], LAMBDA lines :
       Bind(SelectSeq(lines, LAMBDA l : ~is_blank(l)), LAMBDA non_blank_lines :
          IF Len(non_blank_lines) = 0 THEN VObj(<<>>)
          ELSE
          Bind(non_blank_lines[1], LAMBDA first_line :
          Bind(parse_header(first_line.content), LAMBDA header_info :
             IF IsRaise(header_info) THEN header_info
             ELSE IF header_info.t = "hdr" /\ header_info.key = VNull
             THEN decode_array(lines, 1, 0, header_info, opts.strict)
             ELSE IF /\ Len(non_blank_lines) = 1
                     /\ ~split_key_value(first_line.content).ok
                     /\ header_info.t = "none"
             THEN parse_primitive(first_line.content)
             ELSE decode_object(lines, 1, 0, opts.strict))))))


(* _decode_validation.py *)

\* content.find(c) is FindChar(content, c, 1), with 0 for Python's -1
_is_data_row(content, delimiter) ==
    Bind(FindChar(content, COLON, 1), LAMBDA colon_pos :
    Bind(FindChar(content, delimiter, 1), LAMBDA delimiter_pos :
       IF colon_pos = 0 THEN TRUE
       ELSE IF delimiter_pos # 0 /\ delimiter_pos < colon_pos THEN TRUE
       ELSE FALSE))

----------------------------------------------------------------------------
(* The state machine.                                                      *)
(*   pc             where the run stands: "start" (a value to encode),     *)
(*                  "failed" (the encoder raised), "text" (toon holds a    *)
(*                  text), "scanned", "decoded"; "normalized" (input holds *)
(*                  the normalized value); "token" (toon holds a token)    *)
(*                  and "parsed"; "line" (toon holds a line at row depth), *)
(*                  "row_read" and "row_checked"                           *)
(*   doc            how the input was built (its kind and its parts)       *)
(*   input          the value handed to the encoder, then its normal form  *)
(*   encode_options the encoder's options                                  *)
(*   decode_options DecodeOptions: [indent, strict]                        *)
(*   toon           the encoder's result, or the text handed to decode,    *)
(*                  to parse_primitive or to the row decision              *)
(*   scan_result    the result of to_parsed_lines                          *)
(*   decoded        the result of decode, of parse_primitive or of the row *)
(*                  decision                                               *)

\* encoder.encode(value, options)
Encode ==
    /\ pc = "start"
    /\ toon' = encode(input, encode_options)
    /\ pc' = IF IsRaise(toon') THEN "failed" ELSE "text"
    /\ UNCHANGED <<doc, input, encode_options, decode_options, scan_result, decoded,
                 cursor, returned>>

\* _encoders.encode_value(value, options), options an object with the
\* attributes the module reads: indent, delimiter, length_marker
EncodeValue ==
    /\ pc = "start"
    /\ toon' = encode_value(input, encode_options)
    /\ pc' = IF IsRaise(toon') THEN "failed" ELSE "text"
    /\ UNCHANGED <<doc, input, encode_options, decode_options, scan_result, decoded,
                 cursor, returned>>

\* _scanner.to_parsed_lines(source, indent_size, strict)
Scan ==
    /\ pc = "text"
    /\ scan_result' = to_parsed_lines(toon.v, decode_options.indent, decode_options.strict)
    /\ pc' = "scanned"
    /\ UNCHANGED <<doc, input, encode_options, decode_options, toon, decoded,
                 cursor, returned>>

\* _normalize.normalize_value(value), the first statement of encode
Normalize ==
    /\ pc = "start"
    /\ input' = normalize_value(input)
    /\ pc' = "normalized"
    /\ UNCHANGED <<doc, encode_options, decode_options, toon, scan_result, decoded,
                 cursor, returned>>

\* decoder.parse_primitive(token)
ParsePrimitive ==
    /\ pc = "token"
    /\ decoded' = parse_primitive(toon.v)
    /\ pc' = "parsed"
    /\ UNCHANGED <<doc, input, encode_options, decode_options, toon, scan_result,
                 cursor, returned>>

\* decoder.decode(input_str, options)
Decode ==
    /\ pc = "text"
    /\ decoded' = decode(toon.v, decode_options)
    /\ pc' = "decoded"
    /\ UNCHANGED <<doc, input, encode_options, decode_options, toon, scan_result,
                 cursor, returned>>

----------------------------------------------------------------------------
(* Bounded inputs *)

MaxInt == 1
MaxIndent == 2
MaxArrLen == 2

Delimiters == {COMMA, TAB, PIPE}
KeyNames == {<<"a">>, <<"b">>}

\* key sequences without repetition
KeySeqs ==
    {<<>>} \cup {<<x>> : x \in KeyNames}
           \cup {u \in KeyNames \X KeyNames : u[1] # u[2]}

ArraysOver(S, n) == UNION {{VArr(f) : f \in [1..m -> S]} : m \in 0..n}

ObjectsOver(S) ==
    UNION {{VObj([i \in 1..Len(ks) |-> [k |-> ks[i], v |-> f[i]]]) :
               f \in [1..Len(ks) -> S]} : ks \in KeySeqs}

Leaves ==
    {VNull, VBool(TRUE), VBool(FALSE)}
      \cup {VInt(n) : n \in (0 - 1)..MaxInt}
      \cup {VStr(<<>>), VStr(<<"a">>), VStr(<<"a", ",", "b">>), VStr(<<"+", "1">>)}

NestElems ==
    {VInt(1), VStr(<<"a">>), VArr(<<>>), VArr(<<VInt(1)>>), VObj(<<>>),
     VObj(<<[k |-> <<"a">>, v |-> VInt(1)]>>),
     VArr(<<VObj(<<[k |-> <<"a">>, v |-> VInt(1)]>>)>>)}

RoundTripValues ==
    Leaves \cup ArraysOver(Leaves, MaxArrLen) \cup ObjectsOver(Leaves)
           \cup ArraysOver(NestElems, MaxArrLen) \cup ObjectsOver(NestElems)

NoDoc == [kind |-> "value"]

----------------------------------------------------------------------------
(* Round trip through the public entry points *)

Init ==
    /\ pc = "start"
    /\ doc = NoDoc
    /\ input \in RoundTripValues
    /\ \E w \in 0..MaxIndent, d \in Delimiters :
         /\ encode_options = [indent |-> w, delimiter |-> d, length_marker |-> <<>>]
         /\ decode_options = [indent |-> w, strict |-> TRUE]
    /\ toon = VNull
    /\ scan_result = VNull
    /\ cursor = VNull
    /\ returned = VNull
    /\ decoded = VNull

Next == Encode \/ Decode

Spec == Init /\ [][Next]_vars

\* C1: round trip: for every value of the closed value model, every
\* delimiter and every indent width, encode succeeds and strict decode of
\* the text with the same indent width returns a value equal to the input,
\* key order and element order included.
C1_RoundTrip ==
    /\ pc # "failed"
    /\ pc = "decoded" => decoded = input
----------------------------------------------------------------------------
(* Strings through the structural encoder and back *)

MaxStrLen == 2
DefaultIndent == 2

StrAlphabet ==
    {"a", "0", "1", "-", "+", ".", " ", ",", "|", ":", "\"", "\\", "[", "{", "\n", "\t"}

QuoteStrings ==
    UNION {[1..n -> StrAlphabet] : n \in 0..MaxStrLen}
      \cup {TRUE_LITERAL, FALSE_LITERAL, NULL_LITERAL}

Placements == {"root", "field", "cell", "row", "item"}

\* the value that puts x where the encoder writes a root token, the value of
\* a key: value line, an inline array cell, a tabular cell or a list item
Place(where, x) ==
    CASE where = "root" -> x
      [] where = "field" -> VObj(<<[k |-> <<"k">>, v |-> x]>>)
      [] where = "cell" -> VArr(<<x, VInt(1)>>)
      [] where = "row" -> VArr(<<VObj(<<[k |-> <<"k">>, v |-> x]>>)>>)
      [] where = "item" -> VArr(<<x, VArr(<<>>)>>)

\* an options object with the attributes _encoders.py reads
EncoderOptions(w, d) == [indent |-> w, delimiter |-> d, length_marker |-> <<>>]

InitQuote ==
    /\ pc = "start"
    /\ \E s \in QuoteStrings, where \in Placements :
         /\ doc = [kind |-> "quote", where |-> where, s |-> s]
         /\ input = Place(where, VStr(s))
    /\ \E d \in Delimiters : encode_options = EncoderOptions(DefaultIndent, d)
    /\ decode_options = [indent |-> DefaultIndent, strict |-> TRUE]
    /\ toon = VNull
    /\ scan_result = VNull
    /\ cursor = VNull
    /\ returned = VNull
    /\ decoded = VNull

NextValue == EncodeValue \/ Decode

SpecQuote == InitQuote /\ [][NextValue]_vars

LooksNumeric(s) == parse_primitive(s).t \in {"int", "float"}

MustQuote(s, d) ==
    \/ s = <<>>
    \/ s[1] \in Whitespace \/ s[Len(s)] \in Whitespace
    \/ s \in {TRUE_LITERAL, FALSE_LITERAL, NULL_LITERAL}
    \/ LooksNumeric(s)
    \/ \E c \in {d, ":", "[", "]", "{", "}", "\"", "\\", "\n", "\r", "\t"} : Contains(s, c)
    \/ s[1] = "-"

IsQuotedToken(tok) == Len(tok) >= 2 /\ tok[1] = "\"" /\ tok[Len(tok)] = "\""

\* C2: quoting safety: a string that is empty, has leading or trailing
\* whitespace, is a reserved literal, looks numeric, contains the delimiter,
\* a colon, a bracket, a brace, a quote, a backslash or a control character,
\* or starts with '-', is encoded as a double-quoted token; and every
\* string, wherever the encoder places it, decodes back to itself.
C2_QuotingSafety ==
    /\ MustQuote(doc.s, encode_options.delimiter)
         => IsQuotedToken(encode_primitive(VStr(doc.s), encode_options.delimiter))
    /\ pc = "decoded" => decoded = input
----------------------------------------------------------------------------
(* Arrays of objects at each position, through the structural encoder *)

SelectLeaves == {VInt(1), VArr(<<VInt(1)>>)}

\* non-empty arrays of objects that have at least one key
ObjectArrays ==
    ArraysOver({x \in ObjectsOver(SelectLeaves) : Len(x.v) > 0}, MaxArrLen) \ {VArr(<<>>)}

Positions == {"root", "field", "element", "first"}

\* the value that holds the array as the root, as an object field, as an
\* element of an expanded list, or as the first field of a list-item object
PlaceArray(where, x) ==
    CASE where = "root" -> x
      [] where = "field" -> VObj(<<[k |-> <<"k">>, v |-> x]>>)
      [] where = "element" -> VArr(<<x, VInt(1)>>)
      [] where = "first" -> VArr(<<VObj(<<[k |-> <<"k">>, v |-> x]>>)>>)

InitSelect ==
    /\ pc = "start"
    /\ \E x \in ObjectArrays, where \in Positions :
         /\ doc = [kind |-> "select", where |-> where, array |-> x]
         /\ input = PlaceArray(where, x)
    /\ \E d \in Delimiters : encode_options = EncoderOptions(DefaultIndent, d)
    /\ decode_options = [indent |-> DefaultIndent, strict |-> TRUE]
    /\ toon = VNull
    /\ scan_result = VNull
    /\ cursor = VNull
    /\ returned = VNull
    /\ decoded = VNull

SpecSelect == InitSelect /\ [][NextValue]_vars

KeySet(obj) == {obj.v[i].k : i \in 1..Len(obj.v)}

TabularEligible(items) ==
    /\ Len(items) > 0
    /\ \A i \in 1..Len(items) :
         /\ items[i].t = "obj"
         /\ KeySet(items[i]) = KeySet(items[1])
         /\ \A j \in 1..Len(items[i].v) : is_json_primitive(items[i].v[j].v)

TextLines(text) == SplitLines(text, 1, <<>>)

\* the line that holds the header of the array under test
HeaderIndex(where) == IF where \in {"root", "field"} THEN 1 ELSE 2

TabularAt(lines, h, items, d) ==
    Bind([j \in 1..Len(items[1].v) |-> items[1].v[j].k], LAMBDA names :
       /\ EndsWith(lines[h], <<"{">> \o Join(names, <<d>>) \o <<"}", ":">>)
       /\ Len(lines) >= h + Len(items)
       /\ \A i \in 1..Len(items) :
            Strip(lines[h + i]) =
              Join([j \in 1..Len(names) |->
                      encode_primitive(items[i].v[Lookup(items[i].v, names[j])].v, d)],
                   <<d>>))

ListAt(lines, h) ==
    /\ ~Contains(lines[h], "{")
    /\ Len(lines) > h
    /\ StartsWith(Strip(lines[h + 1]), LIST_ITEM_MARKER)

\* C6: tabular or list form: a non-empty array of objects with identical
\* key sets and only primitive values is written in tabular form (header
\* with the first object's keys, one delimiter-joined row per object) at
\* every position: root, object field, element of an expanded list; any
\* other array of objects is written in expanded list form.
C6_TabularSelection ==
    pc \in {"text", "decoded"} =>
      IF TabularEligible(doc.array.v)
      THEN TabularAt(TextLines(toon.v), HeaderIndex(doc.where), doc.array.v,
                     encode_options.delimiter)
      ELSE ListAt(TextLines(toon.v), HeaderIndex(doc.where))

FirstIndex(s, c) == CHOOSE i \in 1..Len(s) : s[i] = c /\ \A j \in 1..(i - 1) : s[j] # c

DelimiterShown(line, d) ==
    Bind(FirstIndex(line, "]"), LAMBDA close : line[close - 1] = d)

\* C7: header delimiter: in every array header the encoder emits, the
\* delimiter stands inside the brackets after the length exactly when it is
\* not comma, except that a header with a {fields} segment always shows it.
C7_HeaderDelimiter ==
    pc \in {"text", "decoded"} =>
      \A i \in 1..Len(TextLines(toon.v)) :
        Bind(TextLines(toon.v)[i], LAMBDA line :
           Contains(line, "[") =>
             (DelimiterShown(line, encode_options.delimiter)
                <=> (encode_options.delimiter # COMMA \/ Contains(line, "{"))))
----------------------------------------------------------------------------
(* Documents handed to decode *)

MaxDeclared == 2

\* fixed lines and line prefixes of the documents
OHEAD == <<"o", ":">>
XHEAD == <<"x", "[", "1", "]", ":">>
AFIELD == <<"a", ":", " ", "1">>
ZFIELD == <<"z", ":", " ", "1">>
AKEY == <<"a", ":", " ">>
TCELLS == <<"t", "[", "2", "]", ":", " ", "1", ",">>
TROWS == <<"t", "[", "1", "]", "{", "p", ",", "q", "}", ":">>
ONECOMMA == <<"1", ",">>

Ind(w, depth) == Repeat(<<" ">>, w * depth)

IndentAll(body, w, depth) == [i \in 1..Len(body) |-> Ind(w, depth) \o body[i]]

DocPositions == {"root", "field", "nested", "first", "later"}

\* the lines of a document that holds an array (the rest of its header line
\* after the key, its body lines, an optional sibling field after it) as the
\* root, as a field of the root object, as a field of a nested object, as
\* the first field or as a later field of an object that is a list item
PlaceLines(where, w, tail, body, after) ==
    Bind(IF where = "root" THEN tail ELSE <<"t">> \o tail, LAMBDA hdr :
    Bind(IF after THEN <<ZFIELD>> ELSE <<>>, LAMBDA sib :
       CASE where \in {"root", "field"} -> <<hdr>> \o IndentAll(body, w, 1) \o sib
         [] where = "nested" ->
              <<OHEAD, Ind(w, 1) \o hdr>> \o IndentAll(body, w, 2) \o IndentAll(sib, w, 1)
         [] where = "first" ->
              <<XHEAD, Ind(w, 1) \o LIST_ITEM_PREFIX \o hdr>>
                \o IndentAll(body, w, 2) \o IndentAll(sib, w, 2)
         [] where = "later" ->
              <<XHEAD, Ind(w, 1) \o LIST_ITEM_PREFIX \o AFIELD, Ind(w, 2) \o hdr>>
                \o IndentAll(body, w, 3) \o IndentAll(sib, w, 2)))

Missing == [t |-> "missing", v |-> <<>>]

Get(obj, key) ==
    IF obj.t = "obj" /\ HasKey(obj.v, key) THEN obj.v[Lookup(obj.v, key)].v ELSE Missing

FirstItem(arr) == IF arr.t = "arr" /\ Len(arr.v) >= 1 THEN arr.v[1] ELSE Missing

\* the array that PlaceLines put into the document, read from the decoded value
ArrayOf(where, x) ==
    CASE where = "root" -> x
      [] where = "field" -> Get(x, <<"t">>)
      [] where = "nested" -> Get(Get(x, <<"o">>), <<"t">>)
      [] where \in {"first", "later"} -> Get(FirstItem(Get(x, <<"x">>)), <<"t">>)

\* [N]: or [N<delimiter>]:, then the given fields segment
HeaderTailText(declared, d, fields_part) ==
    <<"[">> \o NatToStr(declared) \o (IF d = COMMA THEN <<>> ELSE <<d>>) \o <<"]">>
      \o fields_part \o <<":">>

TokenSet == {<<"a">>, <<"1">>}

InlineDocs ==
    {[kind |-> "inline", where |-> where, declared |-> n, tokens |-> toks, delimiter |-> d] :
        where \in DocPositions, n \in 0..MaxDeclared,
        toks \in UNION {[1..m -> TokenSet] : m \in 0..(MaxDeclared + 1)}, d \in Delimiters}

InlineLines(x, w) ==
    PlaceLines(x.where, w,
               HeaderTailText(x.declared, x.delimiter, <<>>)
                 \o (IF Len(x.tokens) = 0 THEN <<>>
                     ELSE <<" ">> \o Join(x.tokens, <<x.delimiter>>)),
               <<>>, FALSE)

TableFields == <<<<"p">>, <<"q">>>>

TabularDocs ==
    {[kind |-> "tabular", where |-> where, declared |-> n, widths |-> ws, delimiter |-> d,
      after |-> after] :
        where \in DocPositions, n \in 1..(MaxDeclared + 1),
        ws \in UNION {[1..m -> 1..(Len(TableFields) + 1)] : m \in 0..MaxDeclared},
        d \in Delimiters, after \in BOOLEAN}

TabularLines(x, w) ==
    PlaceLines(x.where, w,
               HeaderTailText(x.declared, x.delimiter,
                              <<"{">> \o Join(TableFields, <<x.delimiter>>) \o <<"}">>),
               [i \in 1..Len(x.widths) |->
                  Join([j \in 1..x.widths[i] |-> <<"1">>], <<x.delimiter>>)],
               x.after /\ x.where # "root")

BareLines == {<<"b">>, <<"b", " ", "c">>, <<"\"", "b", ":", "\"">>}

NoColonDocs ==
    {[kind |-> "nocolon", where |-> where, line |-> l] :
        where \in {"first", "middle", "last", "nested"}, l \in BareLines}

NoColonLines(x, w) ==
    CASE x.where = "first" -> <<x.line, ZFIELD>>
      [] x.where = "middle" -> <<AFIELD, x.line, ZFIELD>>
      [] x.where = "last" -> <<AFIELD, x.line>>
      [] x.where = "nested" -> <<OHEAD, Ind(w, 1) \o x.line, Ind(w, 1) \o ZFIELD>>

\* an unterminated quoted string, an invalid escape sequence
BadTokens == {<<"\"", "u">>, <<"\"", "\\", "q", "\"">>}
\* a line that opens a quoted key and never closes it
BadKeyLine == <<"\"", "k", ":", " ", "1">>

MalformedDocs ==
    {[kind |-> "malformed", where |-> where, token |-> tok] :
        where \in {"value", "cell", "row", "item", "first", "later"}, tok \in BadTokens}
      \cup {[kind |-> "malformed", where |-> where, token |-> BadKeyLine] :
              where \in {"key", "firstkey", "laterkey"}}

MalformedLines(x, w) ==
    CASE x.where = "value" -> <<AKEY \o x.token>>
      [] x.where = "cell" -> <<TCELLS \o x.token>>
      [] x.where = "row" -> <<TROWS, Ind(w, 1) \o ONECOMMA \o x.token>>
      [] x.where = "item" -> <<XHEAD, Ind(w, 1) \o LIST_ITEM_PREFIX \o x.token>>
      [] x.where = "first" -> <<XHEAD, Ind(w, 1) \o LIST_ITEM_PREFIX \o AKEY \o x.token>>
      [] x.where = "later" ->
           <<XHEAD, Ind(w, 1) \o LIST_ITEM_PREFIX \o AFIELD, Ind(w, 2) \o AKEY \o x.token>>
      [] x.where = "key" -> <<AFIELD, x.token>>
      [] x.where = "firstkey" -> <<XHEAD, Ind(w, 1) \o LIST_ITEM_PREFIX \o x.token>>
      [] x.where = "laterkey" ->
           <<XHEAD, Ind(w, 1) \o LIST_ITEM_PREFIX \o AFIELD, Ind(w, 2) \o x.token>>

DocLines(x, w) ==
    CASE x.kind = "inline" -> InlineLines(x, w)
      [] x.kind = "tabular" -> TabularLines(x, w)
      [] x.kind = "nocolon" -> NoColonLines(x, w)
      [] x.kind = "malformed" -> MalformedLines(x, w)

InitDecode ==
    /\ pc = "text"
    /\ doc \in InlineDocs \cup TabularDocs \cup NoColonDocs \cup MalformedDocs
    /\ input = VNull
    /\ encode_options = VNull
    /\ \E w \in 1..MaxIndent, strict \in BOOLEAN :
         /\ decode_options = [indent |-> w, strict |-> strict]
         /\ toon = VStr(Join(DocLines(doc, w), <<NEWLINE>>))
    /\ scan_result = VNull
    /\ cursor = VNull
    /\ returned = VNull
    /\ decoded = VNull

NextDecode == Decode

SpecDecode == InitDecode /\ [][NextDecode]_vars

\* C3: inline array length: for a header declaring N followed on its line
\* by k delimiter-separated tokens, strict decode raises exactly when
\* k # N, and lenient decode never raises and returns the k parsed values.
C3_InlineLength ==
    pc = "decoded" /\ doc.kind = "inline" =>
      IF decode_options.strict
      THEN IsRaise(decoded) <=> Len(doc.tokens) # doc.declared
      ELSE ArrayOf(doc.where, decoded)
             = VArr([i \in 1..Len(doc.tokens) |-> parse_primitive(doc.tokens[i])])

\* C4: tabular row count: for a tabular header declaring N rows over a
\* body of k < N data rows, strict decode raises and lenient decode returns
\* an array of exactly k objects.
C4_TabularRowCount ==
    pc = "decoded" /\ doc.kind = "tabular" /\ Len(doc.widths) < doc.declared =>
      IF decode_options.strict
      THEN IsRaise(decoded)
      ELSE Bind(ArrayOf(doc.where, decoded), LAMBDA rows :
              /\ rows.t = "arr"
              /\ Len(rows.v) = Len(doc.widths)
              /\ \A i \in 1..Len(rows.v) : rows.v[i].t = "obj")

\* C5: tabular row width: strict decode raises whenever some data row has
\* a number of values other than the number of header fields; lenient
\* decode raises nothing for it.
C5_TabularRowWidth ==
    pc = "decoded" /\ doc.kind = "tabular"
      /\ (\E i \in 1..Len(doc.widths) : doc.widths[i] # Len(TableFields)) =>
      (IsRaise(decoded) <=> decode_options.strict)

\* C9: missing colon: a non-blank line read as an object field that has no
\* colon outside double quotes makes decode raise, with strict = True and
\* with strict = False; the line is never skipped.
C9_MissingColonFatal ==
    pc = "decoded" /\ doc.kind = "nocolon" => IsRaise(decoded)

\* C10: errors propagate: a malformed token (unterminated quoted string,
\* invalid escape sequence, unterminated quoted key) makes decode raise
\* wherever the token sits; decode never returns a value for such a text.
C10_ErrorsPropagate ==
    pc = "decoded" /\ doc.kind = "malformed" => IsRaise(decoded)
----------------------------------------------------------------------------
(* Texts handed to the scanner *)

MaxLead == 2
MaxScanLines == 2

\* leading runs of spaces and tabs
Leads == UNION {[1..n -> {SPACE, TAB}] : n \in 0..MaxLead}

\* what follows the leading run: nothing, a token, a carriage return
ScanContents == {<<>>, <<"a">>, <<CARRIAGE_RETURN>>}

RawLines == {l \o c : l \in Leads, c \in ScanContents}

ScanTexts ==
    {Join(ls, <<NEWLINE>>) : ls \in UNION {[1..n -> RawLines] : n \in 1..MaxScanLines}}

InitScan ==
    /\ pc = "text"
    /\ doc = [kind |-> "text"]
    /\ input = VNull
    /\ encode_options = VNull
    /\ \E w \in 1..MaxIndent, strict \in BOOLEAN :
         decode_options = [indent |-> w, strict |-> strict]
    /\ \E x \in ScanTexts : toon = VStr(x)
    /\ scan_result = VNull
    /\ cursor = VNull
    /\ returned = VNull
    /\ decoded = VNull

NextScan == Scan

SpecScan == InitScan /\ [][NextScan]_vars

WhitespaceOnly(line) == \A i \in 1..Len(line) : line[i] \in Whitespace

\* the length of the leading run of spaces and tabs
LeadLen(line) ==
    CHOOSE n \in 0..Len(line) :
      /\ \A i \in 1..n : line[i] \in {SPACE, TAB}
      /\ n < Len(line) => line[n + 1] \notin {SPACE, TAB}

\* the number of spaces the line starts with
SpaceCount(line) ==
    CHOOSE n \in 0..Len(line) :
      /\ \A i \in 1..n : line[i] = SPACE
      /\ n < Len(line) => line[n + 1] # SPACE

BadIndentation(line, w) ==
    /\ ~WhitespaceOnly(line)
    /\ \/ \E i \in 1..LeadLen(line) : line[i] = TAB
       \/ SpaceCount(line) % w # 0

----------------------------------------------------------------------------
(* Documents of array structure *)

\* bracket segments that are no decimal integer
BadLengths == {<<"a">>, <<>>, <<"1", ".", "5">>}

BadLengthDocs ==
    {[kind |-> "badlength", where |-> where, length |-> l, marker |-> m, delimiter |-> d] :
        where \in DocPositions, l \in BadLengths, m \in BOOLEAN, d \in Delimiters}

\* key[<#><length><delimiter>]: 1
BadLengthLines(x, w) ==
    PlaceLines(x.where, w,
               <<"[">> \o (IF x.marker THEN <<"#">> ELSE <<>>) \o x.length
                 \o (IF x.delimiter = COMMA THEN <<>> ELSE <<x.delimiter>>)
                 \o <<"]", ":", " ", "1">>,
               <<>>, FALSE)

\* first lines of a document: a keyless header, a line that is no key-value
\* line, a key-value line, a keyed header
KEYLESS == <<"[", "1", "]", ":", " ", "1">>
HELLO == <<"h", "i", " ", "y", "o">>
KEYED == <<"t", "[", "1", "]", ":", " ", "1">>
RootFirstLines == {KEYLESS, HELLO, AFIELD, KEYED}

\* a first line, an optional second line, and an optional empty line before
\* or after them
RootDocs ==
    {[kind |-> "rootform", first |-> f, second |-> s, blank |-> b] :
        f \in RootFirstLines, s \in BOOLEAN, b \in {"none", "before", "after"}}

RootLines(x, w) ==
    (IF x.blank = "before" THEN <<<<>>>> ELSE <<>>)
      \o <<x.first>> \o (IF x.second THEN <<ZFIELD>> ELSE <<>>)
      \o (IF x.blank = "after" THEN <<<<>>>> ELSE <<>>)

\* the items of an array body: a data row, a primitive list item, a list
\* item that is an object on one line, one that is an object on two lines
ItemForms(form) == IF form = "tabular" THEN {"row"} ELSE {"prim", "obj", "two"}

ItemLines(item, w) ==
    CASE item = "row" -> <<<<"1", ",", "2">>>>
      [] item = "prim" -> <<LIST_ITEM_PREFIX \o <<"1">>>>
      [] item = "obj" -> <<LIST_ITEM_PREFIX \o AFIELD>>
      [] item = "two" -> <<LIST_ITEM_PREFIX \o AFIELD, Ind(w, 1) \o ZFIELD>>

ItemValue(item) ==
    CASE item = "row" -> VObj(<<[k |-> <<"p">>, v |-> VInt(1)], [k |-> <<"q">>, v |-> VInt(2)]>>)
      [] item = "prim" -> VInt(1)
      [] item = "obj" -> VObj(<<[k |-> <<"a">>, v |-> VInt(1)]>>)
      [] item = "two" -> VObj(<<[k |-> <<"a">>, v |-> VInt(1)], [k |-> <<"z">>, v |-> VInt(1)]>>)

RECURSIVE Flatten(_)
Flatten(seqs) == IF seqs = <<>> THEN <<>> ELSE Head(seqs) \o Flatten(Tail(seqs))

\* the lines of the body, not yet indented to the depth of the array
BodyOf(items, w) == Flatten([i \in 1..Len(items) |-> ItemLines(items[i], w)])

\* an array of the given form declaring a length over a body of items, with
\* an optional blank line after body line blank_at (0: none), either empty
\* or indented like the body, and an optional sibling field after the array
BodyDocs ==
    {[kind |-> "body", form |-> form, where |-> where, declared |-> n, items |-> items,
      blank_at |-> at, blank_lead |-> lead, after |-> after] :
        form \in {"tabular", "list"}, where \in DocPositions, n \in 0..MaxDeclared,
        items \in UNION {[1..k -> {"row", "prim", "obj", "two"}] : k \in 0..MaxDeclared},
        at \in 0..(2 * MaxDeclared - 1), lead \in {"empty", "indented"}, after \in BOOLEAN}

WellFormedBody(x) ==
    /\ \A i \in 1..Len(x.items) : x.items[i] \in ItemForms(x.form)
    /\ x.blank_at <= Len(BodyOf(x.items, 1)) - 1
    /\ x.blank_at = 0 => x.blank_lead = "empty"

BodyLines(x, w) ==
    Bind(BodyOf(x.items, w), LAMBDA body :
    Bind(PlaceLines(x.where, w,
                    HeaderTailText(x.declared, COMMA,
                                   IF x.form = "tabular"
                                   THEN <<"{">> \o Join(TableFields, <<COMMA>>) \o <<"}">>
                                   ELSE <<>>),
                    IF x.blank_at = 0 THEN body
                    ELSE SubSeq(body, 1, x.blank_at) \o <<<<>>>>
                           \o SubSeq(body, x.blank_at + 1, Len(body)),
                    x.after /\ x.where # "root"), LAMBDA lines :
       [i \in 1..Len(lines) |->
          IF x.blank_lead = "empty" /\ (\A j \in 1..Len(lines[i]) : lines[i][j] = SPACE)
          THEN <<>> ELSE lines[i]]))

\* the ways a line can end
LineEndings == {<<NEWLINE>>, <<CARRIAGE_RETURN, NEWLINE>>, <<CARRIAGE_RETURN>>}

\* a: "\r" with the carriage return written as an escape sequence
ESCAPED == <<"a", ":", " ", "\"", BACKSLASH, "r", "\"">>

\* documents of two or three lines: two fields, a nested object, a list,
\* a table, a quoted string with an escaped carriage return
EndingBases == {"fields", "nested", "list", "tabular", "escaped"}

BaseLines(base, w) ==
    CASE base = "fields" -> <<<<"a", ":", " ", "x">>, ZFIELD>>
      [] base = "nested" -> <<OHEAD, Ind(w, 1) \o AFIELD>>
      [] base = "list" ->
           <<<<"t", "[", "2", "]", ":">>, Ind(w, 1) \o LIST_ITEM_PREFIX \o <<"1">>,
             Ind(w, 1) \o LIST_ITEM_PREFIX \o <<"2">>>>
      [] base = "tabular" -> <<TROWS, Ind(w, 1) \o <<"1", ",", "2">>>>
      [] base = "escaped" -> <<ESCAPED, ZFIELD>>

\* the lines of a base document, each line but the last ended the given
\* way, the last one too when final holds
EndingDocs ==
    {[kind |-> "endings", base |-> b, ending |-> e, final |-> f] :
        b \in EndingBases, e \in LineEndings, f \in BOOLEAN}

EndingText(x, w, ending) ==
    Join(BaseLines(x.base, w), ending) \o (IF x.final THEN ending ELSE <<>>)

StructureDocs ==
    BadLengthDocs \cup RootDocs \cup InlineDocs \cup {x \in BodyDocs : WellFormedBody(x)}
      \cup EndingDocs

StructureLines(x, w) ==
    CASE x.kind = "badlength" -> BadLengthLines(x, w)
      [] x.kind = "rootform" -> RootLines(x, w)
      [] x.kind = "inline" -> InlineLines(x, w)
      [] x.kind = "body" -> BodyLines(x, w)

\* the text of a document: its lines joined by newlines, or the text with
\* the line endings of the document
StructureText(x, w) ==
    IF x.kind = "endings" THEN EndingText(x, w, x.ending)
    ELSE Join(StructureLines(x, w), <<NEWLINE>>)

InitStructure ==
    /\ pc = "text"
    /\ doc \in StructureDocs
    /\ input = VNull
    /\ encode_options = VNull
    /\ \E w \in 1..MaxIndent, strict \in BOOLEAN :
         /\ decode_options = [indent |-> w, strict |-> strict]
         /\ toon = VStr(StructureText(doc, w))
    /\ scan_result = VNull
    /\ cursor = VNull
    /\ returned = VNull
    /\ decoded = VNull

NextStructure == Decode

SpecStructure == InitStructure /\ [][NextStructure]_vars

\* C11: invalid array length: a header-shaped line key[...]: whose bracket
\* segment, after an optional # and an optional trailing delimiter, is no
\* non-negative decimal integer makes decode raise with strict = True and
\* with strict = False; it is never taken for an ordinary key-value line.
C11_InvalidLengthFatal ==
    pc = "decoded" /\ doc.kind = "badlength" => IsRaise(decoded)

\* C12: root dispatch: a document whose first line is a keyless header
\* decodes as a root array; otherwise a document of exactly one line that is
\* no key-value line decodes as that primitive; otherwise the document is
\* read as a root object.
C12_RootDispatch ==
    pc = "decoded" /\ doc.kind = "rootform" =>
      CASE doc.first = KEYLESS -> decoded = VArr(<<VInt(1)>>)
        [] doc.first = HELLO /\ ~doc.second -> decoded = VStr(HELLO)
        [] OTHER -> decoded.t = "obj" \/ (doc.first = HELLO /\ IsRaise(decoded))
\* C14: lenient decode neither pads nor truncates: with strict = False an
\* inline, tabular or list array declaring N elements over k elements
\* present (k < N, k = N or k > N) decodes without error to the array of
\* exactly those k elements.
C14_LenientCounts ==
    pc = "decoded" /\ ~decode_options.strict =>
      CASE doc.kind = "inline" ->
             ArrayOf(doc.where, decoded)
               = VArr([i \in 1..Len(doc.tokens) |-> parse_primitive(doc.tokens[i])])
        [] doc.kind = "body" /\ doc.blank_at = 0 ->
             ArrayOf(doc.where, decoded)
               = VArr([i \in 1..Len(doc.items) |-> ItemValue(doc.items[i])])
        [] OTHER -> TRUE

\* C15: blank lines inside arrays: a blank line, whatever its indentation,
\* strictly between the first and the last line of the body of a tabular or
\* expanded-list array (also between the lines of one list item) makes
\* strict decode raise; lenient decode raises nothing for it.
C15_NoBlankLinesInArrays ==
    pc = "decoded" /\ doc.kind = "body" /\ doc.blank_at > 0 =>
      (IsRaise(decoded) <=> decode_options.strict)

\* C16: overflow: in strict mode a list-item line or data-row line at the
\* same depth right after the declared N items or rows makes decode raise;
\* the extra line is never silently ignored.
C16_OverflowDetected ==
    pc = "decoded" /\ doc.kind = "body" /\ decode_options.strict
      /\ doc.blank_at = 0 /\ Len(doc.items) > doc.declared =>
      IsRaise(decoded)
\* C17: line endings: a text with \r\n or a lone \r in place of each \n
\* decodes to the same value as the text with \n; an escaped \r inside a
\* quoted string is left as it is.
C17_LineEndingFolding ==
    pc = "decoded" /\ doc.kind = "endings" =>
      decoded = decode(EndingText(doc, decode_options.indent, <<NEWLINE>>), decode_options)
----------------------------------------------------------------------------
(* Lines at row depth *)

MaxRowLen == 4

RowAlphabet(d) == {"a", d, COLON, DOUBLE_QUOTE, BACKSLASH}

RowLines(d) == UNION {[1..n -> RowAlphabet(d)] : n \in 0..MaxRowLen}

InitRows ==
    /\ pc = "line"
    /\ \E d \in Delimiters : \E l \in RowLines(d) :
         /\ doc = [kind |-> "rowline", delimiter |-> d]
         /\ toon = VStr(l)
    /\ input = VNull
    /\ encode_options = VNull
    /\ decode_options = VNull
    /\ scan_result = VNull
    /\ cursor = VNull
    /\ returned = VNull
    /\ decoded = VNull

\* decode_tabular_array deciding whether the line is one more row
ReadRow ==
    /\ pc = "line"
    /\ decoded' = VBool(is_row_line(toon.v, doc.delimiter))
    /\ pc' = "row_read"
    /\ UNCHANGED <<doc, input, encode_options, decode_options, toon, scan_result,
                 cursor, returned>>

\* validate_no_extra_tabular_rows deciding whether the line is an extra row
CheckExtraRow ==
    /\ pc = "line"
    /\ decoded' = VBool(_is_data_row(toon.v, doc.delimiter))
    /\ pc' = "row_checked"
    /\ UNCHANGED <<doc, input, encode_options, decode_options, toon, scan_result,
                 cursor, returned>>

NextRows == ReadRow \/ CheckExtraRow

SpecRows == InitRows /\ [][NextRows]_vars

\* where the character at index i stands: "out" of double quotes, "in" them,
\* or "esc" (in them, right after a backslash that is not itself escaped)
RECURSIVE QuoteState(_, _)
QuoteState(line, i) ==
    IF i = 1 THEN "out"
    ELSE Bind(QuoteState(line, i - 1), LAMBDA before :
            IF before = "esc" THEN "in"
            ELSE IF line[i - 1] = DOUBLE_QUOTE THEN (IF before = "out" THEN "in" ELSE "out")
            ELSE IF before = "in" /\ line[i - 1] = BACKSLASH THEN "esc"
            ELSE before)

\* the indices of the delimiter and of the colon outside double quotes
OutsideQuotes(line, d) ==
    {i \in 1..Len(line) : line[i] \in {d, COLON} /\ QuoteState(line, i) = "out"}

\* a data row: the delimiter comes first outside double quotes, or neither
\* the delimiter nor a colon occurs there
DataRow(line, d) ==
    \/ OutsideQuotes(line, d) = {}
    \/ line[CHOOSE i \in OutsideQuotes(line, d) : \A j \in OutsideQuotes(line, d) : i <= j] = d

\* C13: row or key-value line: both where rows are read and where extra
\* rows are checked, a line at row depth is a data row iff, outside double
\* quotes, the delimiter occurs before any colon or neither occurs; what is
\* inside double quotes has no influence.
C13_RowDisambiguation ==
    pc \in {"row_read", "row_checked"} => decoded = VBool(DataRow(toon.v, doc.delimiter))
----------------------------------------------------------------------------
(* Sets handed to normalize_value *)

MaxSetLen == 3

SetElems == {VInt(0), VInt(1), VInt(8), VStr(<<"a">>), VStr(<<"b">>)}

\* a set of up to MaxSetLen elements in each order in which iterating over
\* it can yield them (the order depends on the hashes of the elements and
\* on the order in which they were added)
SetValues ==
    {VSet(elems) : elems \in {e \in UNION {[1..n -> SetElems] : n \in 0..MaxSetLen} :
                                 \A i, j \in 1..Len(e) : i # j => e[i] # e[j]}}

InitNormalize ==
    /\ pc = "start"
    /\ input \in SetValues
    /\ doc = [kind |-> "set", value |-> input]
    /\ encode_options = VNull
    /\ decode_options = VNull
    /\ toon = VNull
    /\ scan_result = VNull
    /\ cursor = VNull
    /\ returned = VNull
    /\ decoded = VNull

NextNormalize == Normalize

SpecNormalize == InitNormalize /\ [][NextNormalize]_vars

SetLetters == <<"a", "b">>
LetterRank(c) == CHOOSE i \in 1..Len(SetLetters) : SetLetters[i] = c

\* the sorted order of the elements: integers by value, one-letter strings
\* by letter, and in a mixed set by textual representation, where a string
\* (it starts with a quote) sorts before every integer (it starts with a digit)
Before(x, y) ==
    IF x.t = "int" /\ y.t = "int" THEN x.v < y.v
    ELSE IF x.t = "str" /\ y.t = "str" THEN LetterRank(x.v[1]) < LetterRank(y.v[1])
    ELSE x.t = "str"

Sorted(elems) == \A i, j \in 1..Len(elems) : i < j => Before(elems[i], elems[j])

\* C18: deterministic set normalization: normalize_value maps a set to the
\* array of its elements in sorted order (natural order, or by textual
\* representation when the elements do not compare), so that sets with the
\* same elements give the same array.
C18_SetsSorted ==
    pc = "normalized" /\ doc.kind = "set" =>
      /\ input.t = "arr"
      /\ Len(input.v) = Len(doc.value.v)
      /\ {input.v[i] : i \in 1..Len(input.v)} = {doc.value.v[i] : i \in 1..Len(doc.value.v)}
      /\ Sorted(input.v)
----------------------------------------------------------------------------
(* Tokens handed to parse_primitive *)

MaxTokenLen == 4

TokenAlphabet == {"0", "5", "-", "+", ".", "e", "a"}

\* the literals and some near misses
WordTokens ==
    {TRUE_LITERAL, FALSE_LITERAL, NULL_LITERAL, <<"T", "r", "u", "e">>, <<"t", "r", "u">>,
     <<"n", "u", "l", "l", "s">>, <<"N", "U", "L", "L">>}

PrimitiveTokens ==
    UNION {[1..n -> TokenAlphabet] : n \in 1..MaxTokenLen} \cup WordTokens

InitPrimitive ==
    /\ pc = "token"
    /\ doc = [kind |-> "token"]
    /\ \E tok \in PrimitiveTokens : toon = VStr(tok)
    /\ input = VNull
    /\ encode_options = VNull
    /\ decode_options = VNull
    /\ scan_result = VNull
    /\ cursor = VNull
    /\ returned = VNull
    /\ decoded = VNull

NextPrimitive == ParsePrimitive

SpecPrimitive == InitPrimitive /\ [][NextPrimitive]_vars

AllDigits(s) == Len(s) > 0 /\ \A i \in 1..Len(s) : s[i] \in DigitChars

\* digits whose first is no zero, or the lone digit 0
IntegerPart(s) == AllDigits(s) /\ (Len(s) = 1 \/ s[1] # "0")

\* nothing, or a point and digits
FractionPart(s) == s = <<>> \/ (Len(s) >= 2 /\ s[1] = "." /\ AllDigits(Tail(s)))

\* nothing, or e or E, an optional sign, and digits
ExponentPart(s) ==
    \/ s = <<>>
    \/ /\ Len(s) >= 2
       /\ s[1] \in {"e", "E"}
       /\ AllDigits(IF s[2] \in {"+", "-"} THEN Tail(Tail(s)) ELSE Tail(s))

\* an optional minus sign and a decimal literal
NumberToken(tok) ==
    \E i \in 0..1, j \in 0..Len(tok), k \in 0..Len(tok) :
       /\ i <= j /\ j <= k
       /\ SubSeq(tok, 1, i) \in {<<>>, <<"-">>}
       /\ IntegerPart(SubSeq(tok, i + 1, j))
       /\ FractionPart(SubSeq(tok, j + 1, k))
       /\ ExponentPart(SubSeq(tok, k + 1, Len(tok)))

RECURSIVE DecimalValue(_)
DecimalValue(digits) ==
    IF digits = <<>> THEN 0
    ELSE 10 * DecimalValue(SubSeq(digits, 1, Len(digits) - 1)) + DigitVal(digits[Len(digits)])

\* C19: token classification: true, false and null are the literals; a
\* token is a number iff it is an optional minus sign and a decimal literal
\* (digits, optional fraction, optional exponent) whose integer part has no
\* leading zero other than a lone 0, an int without point and exponent and
\* a float otherwise; every other unquoted token is a string.
C19_TokenClassification ==
    pc = "parsed" =>
      Bind(toon.v, LAMBDA tok :
         IF tok = TRUE_LITERAL THEN decoded = VBool(TRUE)
         ELSE IF tok = FALSE_LITERAL THEN decoded = VBool(FALSE)
         ELSE IF tok = NULL_LITERAL THEN decoded = VNull
         ELSE IF NumberToken(tok)
         THEN IF Contains(tok, ".") \/ Contains(tok, "e") \/ Contains(tok, "E")
              THEN decoded.t = "float"
              ELSE decoded = VInt(IF tok[1] = "-" THEN 0 - DecimalValue(Tail(tok))
                                  ELSE DecimalValue(tok))
         ELSE decoded = VStr(tok))
----------------------------------------------------------------------------
(* Objects handed to the encoder *)

\* a key that needs no quotes, the empty key, a key with a space, a key
\* that starts with a digit
ObjectKeys == {<<"a">>, <<>>, <<"b", " ", "c">>, <<"0">>}

ObjectKeySeqs ==
    {<<x>> : x \in ObjectKeys} \cup {u \in ObjectKeys \X ObjectKeys : u[1] # u[2]}

\* primitives, objects (empty, with a plain key, with the empty key) and
\* arrays (empty, inline, tabular, list)
FieldValues ==
    {VInt(1), VStr(<<"x">>), VObj(<<>>),
     VObj(<<[k |-> <<"z">>, v |-> VInt(1)]>>),
     VObj(<<[k |-> <<>>, v |-> VInt(1)]>>),
     VArr(<<>>), VArr(<<VInt(1), VInt(1)>>),
     VArr(<<VObj(<<[k |-> <<"p">>, v |-> VInt(1)]>>)>>),
     VArr(<<VArr(<<VInt(1)>>)>>)}

FieldObjects ==
    UNION {{VObj([i \in 1..Len(ks) |-> [k |-> ks[i], v |-> f[i]]]) :
               f \in [1..Len(ks) -> FieldValues]} : ks \in ObjectKeySeqs}

InitObject ==
    /\ pc = "start"
    /\ input \in FieldObjects
    /\ doc = [kind |-> "object"]
    /\ \E d \in Delimiters : encode_options = EncoderOptions(DefaultIndent, d)
    /\ decode_options = [indent |-> DefaultIndent, strict |-> TRUE]
    /\ toon = VNull
    /\ scan_result = VNull
    /\ cursor = VNull
    /\ returned = VNull
    /\ decoded = VNull

NextObject == EncodeValue

SpecObject == InitObject /\ [][NextObject]_vars

\* the indices of the lines that are not indented
TopIndices(lines) == {i \in 1..Len(lines) : ~StartsWith(lines[i], <<SPACE>>)}

\* the k-th of them, and Len(lines) + 1 after the last
NthTop(lines, k) ==
    IF k > Cardinality(TopIndices(lines)) THEN Len(lines) + 1
    ELSE CHOOSE i \in TopIndices(lines) :
           Cardinality({j \in TopIndices(lines) : j < i}) = k - 1

\* the line of a field with a primitive value
PrimitiveLine(key, value, d) == encode_key(key) \o <<":", " ">> \o encode_primitive(value, d)

\* lines first..last hold the field: 'key: value' alone; 'key:' and the
\* fields of the object one level deeper; or a line that begins with the
\* key and the opening bracket of an array header
FieldWritten(lines, first, last, key, value, options) ==
    CASE value.t = "obj" ->
           /\ lines[first] = encode_key(key) \o <<":">>
           /\ last - first = Len(value.v)
           /\ \A j \in 1..Len(value.v) :
                 lines[first + j]
                   = Ind(options.indent, 1)
                       \o PrimitiveLine(value.v[j].k, value.v[j].v, options.delimiter)
      [] value.t = "arr" -> StartsWith(lines[first], encode_key(key) \o <<"[">>)
      [] OTHER ->
           /\ lines[first] = PrimitiveLine(key, value, options.delimiter)
           /\ last = first

\* C20: object encoding: for every object and every key of it, also a key
\* that needs quoting and the empty key, the encoder writes in insertion
\* order exactly one line introduced by encode_key(key): 'key: value' for
\* a primitive, 'key:' with the nested fields one level deeper for an
\* object, an array header that begins with encode_key(key) for an array;
\* no key is left out.
C20_ObjectEncoding ==
    pc \in {"text", "failed"} /\ doc.kind = "object" =>
      /\ pc = "text"
      /\ Bind(TextLines(toon.v), LAMBDA lines :
            /\ Cardinality(TopIndices(lines)) = Len(input.v)
            /\ \A k \in 1..Len(input.v) :
                  FieldWritten(lines, NthTop(lines, k), NthTop(lines, k + 1) - 1,
                               input.v[k].k, input.v[k].v, encode_options))

----------------------------------------------------------------------------
(* Strings handed to escape_string and back to unescape_string *)

MaxEscLen == 3

EscAlphabet == {"a", "n", BACKSLASH, DOUBLE_QUOTE, NEWLINE, CARRIAGE_RETURN, TAB}

EscStrings == UNION {[1..n -> EscAlphabet] : n \in 0..MaxEscLen}

InitEscape ==
    /\ pc = "start"
    /\ doc = [kind |-> "string"]
    /\ \E s \in EscStrings : input = VStr(s)
    /\ encode_options = VNull
    /\ decode_options = VNull
    /\ toon = VNull
    /\ scan_result = VNull
    /\ cursor = VNull
    /\ returned = VNull
    /\ decoded = VNull

\* _string_utils.escape_string(value)
EscapeString ==
    /\ pc = "start"
    /\ doc.kind = "string"
    /\ toon' = VStr(escape_string(input.v))
    /\ pc' = "escaped"
    /\ UNCHANGED <<doc, input, encode_options, decode_options, scan_result, decoded,
                 cursor, returned>>

\* _string_utils.unescape_string(value)
UnescapeString ==
    /\ pc = "escaped"
    /\ decoded' = Bind(unescape_string(toon.v), LAMBDA r :
                     IF r.ok THEN VStr(r.val) ELSE Raise("ValueError"))
    /\ pc' = "unescaped"
    /\ UNCHANGED <<doc, input, encode_options, decode_options, toon, scan_result,
                 cursor, returned>>

NextEscape == EscapeString \/ UnescapeString

SpecEscape == InitEscape /\ [][NextEscape]_vars

\* the two characters written for a character that is escaped
EscapeOf(c) ==
    CASE c = BACKSLASH -> <<BACKSLASH, BACKSLASH>>
      [] c = DOUBLE_QUOTE -> <<BACKSLASH, DOUBLE_QUOTE>>
      [] c = NEWLINE -> <<BACKSLASH, "n">>
      [] c = CARRIAGE_RETURN -> <<BACKSLASH, "r">>
      [] c = TAB -> <<BACKSLASH, "t">>
      [] OTHER -> <<c>>

\* where the text written for s[i] begins in the escaped text
EscapedAt(s, i) == 1 + Cardinality({j \in 1..(i - 1) : Len(EscapeOf(s[j])) = 2}) + (i - 1)

\* the number of backslashes that end e[1..i-1]
RECURSIVE BackslashRun(_, _)
BackslashRun(e, i) ==
    IF i > 1 /\ e[i - 1] = BACKSLASH THEN 1 + BackslashRun(e, i - 1) ELSE 0

\* C21: escape/unescape inverse: escape_string writes the two-character
\* escape for exactly backslash, double quote, newline, carriage return and
\* tab and every other character unchanged; its output holds no newline,
\* carriage return or tab and no double quote that is not escaped; and
\* unescape_string(escape_string(s)) = s.
C21_EscapeInverse ==
    /\ pc \in {"escaped", "unescaped"} /\ doc.kind = "string" =>
         Bind(input.v, LAMBDA s : Bind(toon.v, LAMBDA e :
            /\ Len(e) = EscapedAt(s, Len(s) + 1) - 1
            /\ \A i \in 1..Len(s) :
                  SubSeq(e, EscapedAt(s, i), EscapedAt(s, i + 1) - 1) = EscapeOf(s[i])
            /\ \A i \in 1..Len(e) :
                  /\ e[i] \notin {NEWLINE, CARRIAGE_RETURN, TAB}
                  /\ e[i] = DOUBLE_QUOTE => BackslashRun(e, i) % 2 = 1))
    /\ pc = "unescaped" /\ doc.kind = "string" => decoded = input

\* a string with a backslash before the letter n and a double quote went
\* through both functions
C21_Witness ==
    /\ pc = "unescaped"
    /\ doc.kind = "string"
    /\ input.v = <<BACKSLASH, "n", DOUBLE_QUOTE>>
    /\ toon.v = <<BACKSLASH, BACKSLASH, "n", BACKSLASH, DOUBLE_QUOTE>>

----------------------------------------------------------------------------
(* Tokens that begin with a double quote, handed to parse_primitive *)

MaxQuotedLen == 4

QuotedAlphabet == {"a", "n", BACKSLASH, DOUBLE_QUOTE}

QuotedTokens ==
    {<<DOUBLE_QUOTE>> \o rest :
       rest \in UNION {[1..n -> QuotedAlphabet] : n \in 0..(MaxQuotedLen - 1)}}

InitQuoted ==
    /\ pc = "token"
    /\ doc = [kind |-> "quoted"]
    /\ \E tok \in QuotedTokens : toon = VStr(tok)
    /\ input = VNull
    /\ encode_options = VNull
    /\ decode_options = VNull
    /\ scan_result = VNull
    /\ cursor = VNull
    /\ returned = VNull
    /\ decoded = VNull

SpecQuoted == InitQuoted /\ [][NextPrimitive]_vars

\* the index of the first double quote at or after i that no backslash
\* escapes, 0 when there is none
RECURSIVE ClosingQuote(_, _)
ClosingQuote(tok, i) ==
    IF i > Len(tok) THEN 0
    ELSE IF tok[i] = BACKSLASH THEN ClosingQuote(tok, i + 2)
    ELSE IF tok[i] = DOUBLE_QUOTE THEN i
    ELSE ClosingQuote(tok, i + 1)

\* every backslash of s is followed by one of \ " n r t
RECURSIVE ValidEscapes(_, _)
ValidEscapes(s, i) ==
    IF i > Len(s) THEN TRUE
    ELSE IF s[i] = BACKSLASH
         THEN /\ i + 1 <= Len(s)
              /\ s[i + 1] \in {BACKSLASH, DOUBLE_QUOTE, "n", "r", "t"}
              /\ ValidEscapes(s, i + 2)
    ELSE ValidEscapes(s, i + 1)

\* C22: quoted string tokens: parse_primitive of a token that begins with
\* a double quote returns the unescaped content when the first unescaped
\* double quote after the opening one is the last character of the token
\* and every backslash inside is followed by one of \ " n r t, and raises
\* a decode error otherwise.
C22_QuotedTokens ==
    pc = "parsed" /\ doc.kind = "quoted" =>
      Bind(toon.v, LAMBDA tok :
      Bind(SubSeq(tok, 2, Len(tok) - 1), LAMBDA content :
         IF ClosingQuote(tok, 2) = Len(tok) /\ ValidEscapes(content, 1)
         THEN decoded = VStr(unescape_string(content).val)
         ELSE decoded = Raise("ToonDecodeError")))

----------------------------------------------------------------------------
(* _scanner.py: LineCursor.  cursor is [lines, index, blank_lines]; index  *)
(* is the Python _index, so the line at the position is lines[index + 1].  *)
(* Each method is an action: it sets returned to the value it returns and  *)
(* doc to the call just made, [kind |-> "call", op, arg, before], before   *)
(* being the position when the method was entered.                         *)

MaxCursorLines == 3
MaxPosition == 5
MaxDepth == 2

None == VNull

\* LineCursor.__init__
LineCursor(lines, blank_lines) == [lines |-> lines, index |-> 0, blank_lines |-> blank_lines]

\* the value of self.peek()
PeekLine(c) == IF c.index >= Len(c.lines) THEN None ELSE c.lines[c.index + 1]

\* the value of self.peek_at_depth(target_depth)
PeekLineAtDepth(c, target_depth) ==
    Bind(PeekLine(c), LAMBDA line :
       IF line.t = "null" \/ line.depth < target_depth THEN None
       ELSE IF line.depth = target_depth THEN line
       ELSE None)

\* the loop of skip_deeper_than: the cursor it leaves
RECURSIVE SkipLoop(_, _)
SkipLoop(c, depth) ==
    Bind(PeekLine(c), LAMBDA line :
       IF line.t # "null" /\ line.depth > depth
       THEN SkipLoop([c EXCEPT !.index = @ + 1], depth)
       ELSE c)

Call(op, arg) == [kind |-> "call", op |-> op, arg |-> arg, before |-> cursor.index]

CursorFrame == UNCHANGED <<pc, input, encode_options, decode_options, toon, scan_result, decoded>>

get_blank_lines ==
    /\ pc = "cursor"
    /\ returned' = [t |-> "list", v |-> cursor.blank_lines]
    /\ doc' = Call("get_blank_lines", None)
    /\ UNCHANGED cursor
    /\ CursorFrame

\* peek that also moves to the next line
peek_consuming ==
    /\ pc = "cursor"
    /\ returned' = PeekLine(cursor)
    /\ doc' = Call("peek", None)
    /\ cursor' = IF cursor.index >= Len(cursor.lines) THEN cursor
                 ELSE [cursor EXCEPT !.index = @ + 1]
    /\ CursorFrame

peek ==
    /\ pc = "cursor"
    /\ returned' = PeekLine(cursor)
    /\ doc' = Call("peek", None)
    /\ UNCHANGED cursor
    /\ CursorFrame

next ==
    /\ pc = "cursor"
    /\ IF cursor.index >= Len(cursor.lines)
       THEN /\ returned' = None
            /\ UNCHANGED cursor
       ELSE /\ returned' = cursor.lines[cursor.index + 1]
            /\ cursor' = [cursor EXCEPT !.index = @ + 1]
    /\ doc' = Call("next", None)
    /\ CursorFrame

current ==
    /\ pc = "cursor"
    /\ returned' = IF cursor.index > 0
                   THEN IF cursor.index - 1 < Len(cursor.lines)
                        THEN cursor.lines[cursor.index]
                        ELSE Raise("IndexError")
                   ELSE None
    /\ doc' = Call("current", None)
    /\ UNCHANGED cursor
    /\ CursorFrame

\* advance that starts again at the first line once it is past the last
advance_wrapping ==
    /\ pc = "cursor"
    /\ cursor' = [cursor EXCEPT !.index = (@ + 1) % (Len(cursor.lines) + 1)]
    /\ returned' = None
    /\ doc' = Call("advance", None)
    /\ CursorFrame

advance ==
    /\ pc = "cursor"
    /\ cursor.index < MaxPosition
    /\ cursor' = [cursor EXCEPT !.index = @ + 1]
    /\ returned' = None
    /\ doc' = Call("advance", None)
    /\ CursorFrame

at_end ==
    /\ pc = "cursor"
    /\ returned' = VBool(cursor.index >= Len(cursor.lines))
    /\ doc' = Call("at_end", None)
    /\ UNCHANGED cursor
    /\ CursorFrame

length ==
    /\ pc = "cursor"
    /\ returned' = VInt(Len(cursor.lines))
    /\ doc' = Call("length", None)
    /\ UNCHANGED cursor
    /\ CursorFrame

peek_at_depth ==
    /\ pc = "cursor"
    /\ \E target_depth \in 0..MaxDepth :
         /\ returned' = PeekLineAtDepth(cursor, target_depth)
         /\ doc' = Call("peek_at_depth", target_depth)
    /\ UNCHANGED cursor
    /\ CursorFrame

has_more_at_depth ==
    /\ pc = "cursor"
    /\ \E target_depth \in 0..MaxDepth :
         /\ returned' = VBool(PeekLineAtDepth(cursor, target_depth).t # "null")
         /\ doc' = Call("has_more_at_depth", target_depth)
    /\ UNCHANGED cursor
    /\ CursorFrame

skip_deeper_than ==
    /\ pc = "cursor"
    /\ \E depth \in 0..MaxDepth :
         /\ cursor' = SkipLoop(cursor, depth)
         /\ doc' = Call("skip_deeper_than", depth)
    /\ returned' = None
    /\ CursorFrame

\* the lines a cursor is built over: a token at depth 0..MaxDepth, or nothing
CursorRawLines == {Ind(DefaultIndent, d) \o <<"a">> : d \in 0..MaxDepth} \cup {<<>>}

CursorTexts ==
    {Join(ls, <<NEWLINE>>) : ls \in UNION {[1..n -> CursorRawLines] : n \in 1..MaxCursorLines}}

\* LineCursor(*to_parsed_lines(text, indent, False))
InitCursor ==
    /\ pc = "cursor"
    /\ doc = [kind |-> "cursor"]
    /\ input = VNull
    /\ encode_options = VNull
    /\ decode_options = [indent |-> DefaultIndent, strict |-> FALSE]
    /\ \E x \in CursorTexts :
         /\ toon = VStr(x)
         /\ scan_result = to_parsed_lines(x, DefaultIndent, FALSE)
    /\ cursor = LineCursor(scan_result.parsed, scan_result.blank_lines)
    /\ returned = VNull
    /\ decoded = VNull

NextCursor ==
    \/ get_blank_lines
    \/ peek
    \/ next
    \/ current
    \/ advance
    \/ at_end
    \/ length
    \/ peek_at_depth
    \/ has_more_at_depth
    \/ skip_deeper_than

SpecCursor == InitCursor /\ [][NextCursor]_vars

\* C23: forward-only cursor: no LineCursor operation decreases the position,
\* and none changes the line sequence or the blank-line list.
C23_ForwardOnly ==
    [][/\ cursor'.index >= cursor.index
       /\ cursor'.lines = cursor.lines
       /\ cursor'.blank_lines = cursor.blank_lines]_vars

\* skip_deeper_than moved the cursor over two lines, of a text with a blank
\* line, to a line of the depth given
C23_Witness ==
    /\ doc.kind = "call"
    /\ doc.op = "skip_deeper_than"
    /\ cursor.index = doc.before + 2
    /\ cursor.index < Len(cursor.lines)
    /\ Len(cursor.blank_lines) > 0

\* C26: cursor operation effects: peek, current, at_end, length,
\* peek_at_depth and has_more_at_depth leave the position where it was; next
\* returns the line at the position and moves by exactly one when the
\* cursor is not at the end, and returns None and moves nothing at the end;
\* peek returns None exactly when the cursor is at the end; after
\* skip_deeper_than(d) the cursor is at the end or at a line of depth <= d,
\* and every line it passed had depth > d.
C26_OperationEffects ==
    doc.kind = "call" =>
      Bind(Len(cursor.lines), LAMBDA n :
        /\ doc.op \in {"peek", "current", "at_end", "length", "peek_at_depth",
                       "has_more_at_depth"}
             => cursor.index = doc.before
        /\ doc.op = "next" =>
             IF doc.before >= n
             THEN returned = None /\ cursor.index = doc.before
             ELSE returned = cursor.lines[doc.before + 1] /\ cursor.index = doc.before + 1
        /\ doc.op = "peek" => (returned = None <=> cursor.index >= n)
        /\ doc.op = "skip_deeper_than" =>
             /\ cursor.index >= n \/ cursor.lines[cursor.index + 1].depth <= doc.arg
             /\ \A j \in (doc.before + 1)..cursor.index : cursor.lines[j].depth > doc.arg)

\* skip_deeper_than(0) passed a line of depth 1 and one of depth 2 and
\* stopped at a line of depth 0
C26_Witness ==
    /\ doc.kind = "call"
    /\ doc.op = "skip_deeper_than"
    /\ doc.arg = 0
    /\ doc.before = 0
    /\ cursor.index = 2
    /\ Len(cursor.lines) = 3
    /\ cursor.lines[1].depth = 1
    /\ cursor.lines[2].depth = 2
    /\ cursor.lines[3].depth = 0

\* C27: position bounds: after any sequence of operations the position is
\* between 0 and the number of lines, and current() returns None or a line,
\* never failing on an index past the end.
C27_PositionInRange ==
    doc.kind \in {"cursor", "call"} =>
      /\ 0 <= cursor.index
      /\ cursor.index <= Len(cursor.lines)
      /\ ~IsRaise(returned)

----------------------------------------------------------------------------
(* Values whose text could end in a space or a newline *)

ShapeLeaves ==
    {VNull, VInt(1), VStr(<<>>), VStr(<<" ">>), VStr(<<"a", " ">>), VStr(<<"a">>),
     VStr(<<NEWLINE>>)}

ShapeKeys == {<<"a">>, <<>>, <<"a", " ">>}

Field(k, x) == VObj(<<[k |-> k, v |-> x]>>)

ShapeElems ==
    {VInt(1), VStr(<<>>), VStr(<<"a", " ">>), VArr(<<>>), VObj(<<>>), Field(<<>>, VStr(<<>>)),
     Field(<<"a">>, VObj(<<>>)), Field(<<"a">>, VArr(<<>>))}

ShapeInner ==
    ShapeLeaves \cup ArraysOver(ShapeElems, MaxArrLen)
                \cup {Field(k, x) : k \in ShapeKeys, x \in ShapeLeaves}

\* x itself, as a field, as a list item, and as the first and a later field
\* of an object that is a list item
ShapeValues ==
    ShapeInner
      \cup {Field(k, x) : k \in ShapeKeys, x \in ShapeInner}
      \cup {VArr(<<x>>) : x \in ShapeInner}
      \cup {VArr(<<Field(k, x)>>) : k \in ShapeKeys, x \in ShapeInner}
      \cup {VArr(<<VObj(<<[k |-> <<"j">>, v |-> VInt(1)], [k |-> k, v |-> x]>>)>>) :
              k \in ShapeKeys, x \in ShapeInner}

InitShape ==
    /\ pc = "start"
    /\ doc = [kind |-> "shape"]
    /\ input \in ShapeValues
    /\ \E w \in 0..MaxIndent, d \in Delimiters, marker \in {<<>>, <<HASH>>} :
         encode_options = [indent |-> w, delimiter |-> d, length_marker |-> marker]
    /\ decode_options = VNull
    /\ toon = VNull
    /\ scan_result = VNull
    /\ cursor = VNull
    /\ returned = VNull
    /\ decoded = VNull

NextShape == Encode \/ EncodeValue

SpecShape == InitShape /\ [][NextShape]_vars

\* C24: output shape: the text the encoder returns does not end with a
\* newline, and no line of it ends with a space.
C24_OutputShape ==
    pc = "text" /\ doc.kind = "shape" =>
      /\ ~EndsWith(toon.v, <<NEWLINE>>)
      /\ \A i \in 1..Len(TextLines(toon.v)) : ~EndsWith(TextLines(toon.v)[i], <<SPACE>>)

\* the text of a list item that is an object whose second field, under a
\* key that ends with a space, holds an object with a string that ends with
\* a space
C24_Witness ==
    /\ pc = "text"
    /\ doc.kind = "shape"
    /\ input = VArr(<<VObj(<<[k |-> <<"j">>, v |-> VInt(1)],
                             [k |-> <<"a", " ">>, v |-> Field(<<"a">>, VStr(<<"a", " ">>))]>>)>>)
    /\ Len(TextLines(toon.v)) = 4
    /\ EndsWith(toon.v, <<"a", " ", DOUBLE_QUOTE>>)

----------------------------------------------------------------------------
(* What the scanner returns *)

\* the indices of the lines that hold nothing but whitespace after their
\* leading spaces
BlankIndices(lines) ==
    {i \in 1..Len(lines) : WhitespaceOnly(From(lines[i], SpaceCount(lines[i])))}

\* the k-th of a set of indices
NthIndex(S, k) == CHOOSE i \in S : Cardinality({j \in S : j < i}) = k - 1

\* C25: scanner output: for a text that is not whitespace-only,
\* to_parsed_lines, when it returns, returns one ParsedLine per
\* '\n'-separated line, in order, with line_num its position from 1, indent
\* its number of leading spaces and depth = indent div indent width, and one
\* BlankLineInfo with the same three numbers for exactly the lines that
\* hold only whitespace after the indent; for an empty or whitespace-only
\* text it returns two empty lists; and the lenient scanner always returns.
C25_ScannerOutput ==
    pc = "scanned" =>
      /\ ~decode_options.strict => ~IsRaise(scan_result)
      /\ ~IsRaise(scan_result) =>
           Bind(TextLines(toon.v), LAMBDA lines :
           Bind(scan_result.parsed, LAMBDA parsed :
           Bind(scan_result.blank_lines, LAMBDA blanks :
              IF WhitespaceOnly(toon.v)
              THEN parsed = <<>> /\ blanks = <<>>
              ELSE /\ Len(parsed) = Len(lines)
                   /\ \A i \in 1..Len(lines) :
                         /\ parsed[i].raw = lines[i]
                         /\ parsed[i].line_num = i
                         /\ parsed[i].indent = SpaceCount(lines[i])
                         /\ parsed[i].depth = SpaceCount(lines[i]) \div decode_options.indent
                         /\ parsed[i].content = From(lines[i], SpaceCount(lines[i]))
                   /\ Len(blanks) = Cardinality(BlankIndices(lines))
                   /\ \A k \in 1..Len(blanks) :
                         Bind(NthIndex(BlankIndices(lines), k), LAMBDA i :
                            blanks[k] = [line_num |-> i, indent |-> parsed[i].indent,
                                         depth |-> parsed[i].depth]))))

\* a lenient scan with indent width 2 of a line with one leading space and a
\* token, followed by a line of two spaces
C25_Witness ==
    /\ pc = "scanned"
    /\ ~decode_options.strict
    /\ decode_options.indent = 2
    /\ toon.v = <<SPACE, "a", NEWLINE, SPACE, SPACE>>
    /\ scan_result.parsed[1].depth = 0
    /\ scan_result.blank_lines = <<[line_num |-> 2, indent |-> 2, depth |-> 1]>>

----------------------------------------------------------------------------
(* The line loops of decoder.py, one iteration at a time.  doc is the      *)
(* iteration just made, [kind |-> "iteration", loop, i, depth, header]: i  *)
(* the line index it began at; decoded is what it did (Continue, Break or  *)
(* a raise).  A loop is entered at any line and any depth next to the      *)
(* line's own, and goes on where the last iteration said.                  *)

\* the list `lines` of decode: the scanned lines with content stripped
StrippedLines(parsed) ==
    [i \in 1..Len(parsed) |-> [parsed[i] EXCEPT !.content = Strip(parsed[i].content)]]

LoopLines == StrippedLines(scan_result.parsed)

LoopDocs ==
    {x \in BodyDocs : WellFormedBody(x) /\ x.where \in {"field", "later"}}
      \cup RootDocs \cup MalformedDocs

InitLoops ==
    /\ pc = "text"
    /\ doc \in LoopDocs
    /\ input = VNull
    /\ encode_options = VNull
    /\ \E strict \in BOOLEAN : decode_options = [indent |-> DefaultIndent, strict |-> strict]
    /\ toon = VStr(IF doc.kind = "malformed"
                   THEN Join(DocLines(doc, DefaultIndent), <<NEWLINE>>)
                   ELSE StructureText(doc, DefaultIndent))
    /\ scan_result = to_parsed_lines(toon.v, DefaultIndent, decode_options.strict)
    /\ cursor = VNull
    /\ returned = VNull
    /\ decoded = VNull

\* the depths a loop can run at when it meets line i
DepthsAt(i) == {d \in (LoopLines[i].depth - 1)..(LoopLines[i].depth + 1) : d >= 0}

\* the tabular headers of the lines before line i
HeadersBefore(i) ==
    {h \in {parse_header(LoopLines[k].content) : k \in 1..(i - 1)} :
        ~IsRaise(h) /\ h.t = "hdr" /\ h.fields # VNull}

\* where an iteration of `loop` can begin, [i, depth, header]: at any line
\* when the loop is entered, at the index the last iteration went on to
\* afterwards
EntryPoints(loop) ==
    IF IsRaise(scan_result) THEN {}
    ELSE IF pc = "text"
    THEN UNION {{[i |-> i, depth |-> d, header |-> h] :
                    d \in DepthsAt(i),
                    h \in IF loop = "tabular" THEN HeadersBefore(i) ELSE {VNull}} :
                  i \in 1..Len(LoopLines)}
    ELSE IF /\ pc = "iterated"
            /\ doc.loop = loop
            /\ decoded.t = "continue"
            /\ decoded.i <= Len(LoopLines)
    THEN {[i |-> decoded.i, depth |-> doc.depth, header |-> doc.header]}
    ELSE {}

\* the accumulator of the loop when the iteration begins
LoopAcc == IF pc = "text" THEN <<>> ELSE decoded.acc

Iteration(loop, e) ==
    [kind |-> "iteration", loop |-> loop, i |-> e.i, depth |-> e.depth, header |-> e.header]

LoopFrame == UNCHANGED <<input, encode_options, decode_options, toon, scan_result,
                         cursor, returned>>

\* decode_tabular_array: while i < len(lines)
TabularIteration ==
    \E e \in EntryPoints("tabular") :
       /\ decoded' = TabularStep(LoopLines, e.i, e.depth, e.header, decode_options.strict,
                                 LoopAcc)
       /\ doc' = Iteration("tabular", e)
       /\ pc' = "iterated"
       /\ LoopFrame

\* decode_object: while i < len(lines)
ObjectIteration ==
    \E e \in EntryPoints("object") :
       /\ decoded' = ObjectStep(LoopLines, e.i, e.depth, decode_options.strict, LoopAcc)
       /\ doc' = Iteration("object", e)
       /\ pc' = "iterated"
       /\ LoopFrame

\* decode_list_array: while i < len(lines)
ListIteration ==
    \E e \in EntryPoints("list") :
       /\ decoded' = ListStep(LoopLines, e.i, e.depth, decode_options.strict, LoopAcc)
       /\ doc' = Iteration("list", e)
       /\ pc' = "iterated"
       /\ LoopFrame

\* decode_list_array: while i < len(lines) and lines[i].depth == depth + 1
FieldIteration ==
    \E e \in EntryPoints("field") :
       /\ LoopLines[e.i].depth = e.depth
       /\ decoded' = FieldStep(LoopLines, e.i, e.depth, decode_options.strict, LoopAcc)
       /\ doc' = Iteration("field", e)
       /\ pc' = "iterated"
       /\ LoopFrame

NextLoops == TabularIteration \/ ObjectIteration \/ ListIteration \/ FieldIteration

SpecLoops == InitLoops /\ [][NextLoops]_vars

\* C28: decoder termination: every iteration of the line loops of object,
\* tabular and list decoding (the field loop of a list item included) that
\* does not leave the loop goes on at a line index greater than the one it
\* began at and at most one past the last line, where the condition of the
\* while is false: len(lines) - i decreases with every iteration and is
\* never negative, so every loop is left after at most len(lines)
\* iterations.
C28_DecoderTermination ==
    pc = "iterated" /\ decoded.t = "continue" =>
      /\ decoded.i > doc.i
      /\ decoded.i <= Len(LoopLines) + 1

\* an iteration of the object loop read the header of an array field and
\* went on behind the two lines of the array's body
C28_Witness ==
    /\ pc = "iterated"
    /\ doc.loop = "object"
    /\ decoded.t = "continue"
    /\ decoded.i = doc.i + 3
    /\ Len(decoded.acc) > 0
    /\ decoded.acc[Len(decoded.acc)].v.t = "arr"
    /\ Len(decoded.acc[Len(decoded.acc)].v.v) = 2

----------------------------------------------------------------------------
(* Documents with one more line: the field ZFIELD, which no other line    *)
(* of them holds                                                           *)

StrayBases ==
    {<<AFIELD>>,
     <<OHEAD, <<SPACE>> \o AFIELD>>,
     <<<<"[", "1", "]", ":", " ", "1">>>>,
     <<<<"[", "1", "]", ":">>, <<SPACE, "-", " ", "1">>>>,
     <<<<"[", "1", "]", "{", "p", "}", ":">>, <<SPACE, "1">>>>,
     <<<<"t", "[", "1", "]", ":", " ", "1">>>>,
     <<<<"t", "[", "1", "]", ":">>, <<SPACE, "-", " ", "1">>>>,
     <<<<"t", "[", "1", "]", ":">>, <<SPACE, "-", " ">> \o AFIELD>>,
     <<<<"t", "[", "1", "]", "{", "p", "}", ":">>, <<SPACE, "1">>>>}

\* the lines of a base, written with one space per level, at indent width w
RECURSIVE Widen(_, _)
Widen(line, w) ==
    IF Len(line) > 0 /\ line[1] = SPACE THEN Ind(w, 1) \o Widen(Tail(line), w) ELSE line

MaxStrayDepth == 3

StrayDocs ==
    {[kind |-> "stray", base |-> b, after |-> p, depth |-> k] :
        b \in StrayBases, p \in 1..2, k \in 0..MaxStrayDepth}

\* the base with the added line at depth x.depth after its line x.after
StrayLines(x, w) ==
    Bind([i \in 1..Len(x.base) |-> Widen(x.base[i], w)], LAMBDA base :
       SubSeq(base, 1, x.after) \o <<Ind(w, x.depth) \o ZFIELD>>
         \o SubSeq(base, x.after + 1, Len(base)))

StrayText(x, w) == Join(StrayLines(x, w), <<NEWLINE>>)

InitStray ==
    /\ pc = "text"
    /\ doc \in {x \in StrayDocs : x.after <= Len(x.base)}
    /\ input = VNull
    /\ encode_options = VNull
    /\ \E w \in 1..MaxIndent, strict \in BOOLEAN :
         /\ decode_options = [indent |-> w, strict |-> strict]
         /\ toon = VStr(StrayText(doc, w))
    /\ scan_result = VNull
    /\ cursor = VNull
    /\ returned = VNull
    /\ decoded = VNull

SpecStray == InitStray /\ [][NextDecode]_vars

\* the value holds a field with this key, at any depth
RECURSIVE Mentions(_, _)
Mentions(value, key) ==
    CASE value.t = "obj" ->
           \E j \in 1..Len(value.v) : value.v[j].k = key \/ Mentions(value.v[j].v, key)
      [] value.t = "arr" -> \E j \in 1..Len(value.v) : Mentions(value.v[j], key)
      [] OTHER -> FALSE

\* C29: no silently ignored lines in strict mode: when strict decode returns
\* a value for a document with the added line, the field of that line is
\* part of the value; a line that fits nowhere makes decode raise.
C29_NoIgnoredLines ==
    pc = "decoded" /\ doc.kind = "stray" /\ decode_options.strict /\ ~IsRaise(decoded)
      => Mentions(decoded, <<"z">>)

----------------------------------------------------------------------------
(* Strict decoding of the encoder's own output *)

\* C30: encoder output is strictly valid: for every value, delimiter and
\* indent width of at least 1, decoding the encoder's text in strict mode
\* with the same width never raises.
C30_StrictlyValid ==
    (pc = "decoded" /\ encode_options.indent >= 1 /\ decode_options.strict
       /\ decode_options.indent = encode_options.indent)
      => ~IsRaise(decoded)
====
